---- MODULE Spec2Model ----
(***************************************************************************)
(* A model of the open-skills core: the gap analyzer (GapAnalyzer.ts), the *)
(* remote client (GitHubSkillsClient.ts) and the command handlers of       *)
(* extension.ts that drive them.                                           *)
(*                                                                         *)
(* Encodings.  A JavaScript object is a heap cell: `heap' is a sequence of *)
(* records and an object reference is an index into it.  A Number is an    *)
(* IEEE-754 double: [m |-> 53 mantissa bits, most significant first,       *)
(* e |-> exponent of the leading bit], or Zero.  A path string is the      *)
(* sequence of its "/"-separated segments.                                 *)
(***************************************************************************)
EXTENDS Integers, Sequences, FiniteSets, TLC

VARIABLES
    heap,             \* the SkillDefinition objects allocated so far
    localSkills,      \* analyze's first argument: references into heap
    referenceSkills,  \* analyze's second argument: references into heap
    heapAtCall,       \* the heap as it was when analyze was called
    result,           \* the GapAnalysisResult that analyze returned
    analyzePc,        \* "ready" before the call of analyze, "returned" after
    now,              \* Date.now(), in milliseconds
    cacheTimeout,     \* the setting open-skills.cacheTimeout, in seconds
    cache,            \* GitHubSkillsClient.cache: a map from keys to entries
    lookup,           \* the last getFromCache call: <<>> or <<its record>>
    scanTree,         \* a GitTreeResponse.tree: the items of a tree listing
    scanRepoPath,     \* repo.path of the repository being resolved
    uniquePaths,      \* the deduplicated skill paths found in scanTree
    scanPc,           \* "ready" before the paths are extracted, "done" after
    poolFiles,        \* fetchFilesWithPool's argument files
    poolI,            \* the loop variable i of fetchFilesWithPool
    poolPc,           \* where fetchFilesWithPool stands
    poolFetch,        \* the fetchRawContent calls issued so far, by file index
    poolResults,      \* the array results of fetchFilesWithPool
    poolLog,          \* the waves issued (their sizes) and the pauses (0), in order
    fs,               \* the file system: a map from directory paths to contents
    importSkills,     \* the list missingSkills of importAllMissingSkills
    importCall,       \* the importSkill call of each of them
    importAllPc,      \* where the importAllMissingSkills handler stands
    totalImported,    \* analytics.totalImported
    importNotices,    \* the messages shown: errors by skill name, and the summary
    repositories,     \* fetchAllSkills: the default and the configured repositories
    repoProc,         \* the fetchSkillsFromRepo call of each repository
    fetchAllPc,       \* where fetchAllSkills stands
    allSkills,        \* the array allSkills of fetchAllSkills
    errors,           \* the array errors of fetchAllSkills
    aggregateWarnings,\* how often fetchAllSkills showed its failure warning
    settledOutOfOrder,\* whether a repository settled before an earlier one
    docText,          \* extractName: the argument content
    docFallback,      \* extractName: the argument fallback
    extractedName,    \* extractName: the value returned, once it has returned
    customPaths,      \* SkillScanner.customPaths
    scanPaths,        \* scan: the list scanPaths
    rootCall,         \* scan: the scanDirectory call of each root
    scanAllPc,        \* where scan stands
    scanSkills,       \* scan: the list skills of the result
    rootsOutOfOrder,  \* whether a root settled before an earlier one
    githubToken,      \* the setting open-skills.githubToken
    clientCalls,      \* the fetchRepoTree and fetchRawContent calls made, in order
    rateLimitWarnings,\* how often checkRateLimit showed its warning
    clearedKeys,      \* the keys dropped by clearCache and not stored since
    preClearCalls,    \* the calls whose request is in flight since before a clearCache
    staleData,        \* the keys whose entry was stored by such a call
    installSkill,     \* installMarketplaceSkill: the skill to install
    installPc,        \* where the handler stands
    installOps,       \* the file-system operations it has made, in order
    totalInstalled,   \* analytics.totalInstalled
    installNotices,   \* the messages it has shown
    mdOrigin,         \* parseSkillMd: what the document was made of
    mdContent,        \* parseSkillMd: the argument content
    mdParsed,         \* parseSkillMd: the value returned, once it has returned
    isScanning,       \* extension.ts: the flag isScanning
    scanQueued,       \* extension.ts: the flag scanQueued
    debounceArmed,    \* whether the timer of debouncedScan is set
    scanPasses,       \* the doScan passes that are executing
    lastScanStart,    \* the latest start of a pass that has completed, or -1
    fsVersion,        \* how many mutations of the file system have completed
    skillsVersion,    \* the file-system version that the shared list skills reflects
    handlers,         \* the command handlers that mutate and then await performScan
    scanRequests,     \* how many performScan calls the triggers have made
    deleteFsBefore,   \* deleteSkill: the skill documents that exist before the call
    deleteFs,         \* deleteSkill: the skill documents that exist
    deletedSkill,     \* deleteSkill: the argument skill, once called
    deleteOutcome,    \* deleteSkill: what it returned
    srcGlobalPath,    \* resolveSource: the scanner's globalPath, as given to the constructor
    srcScanPath,      \* resolveSource: the scan path whose documents are parsed
    srcRecord         \* resolveSource: source and status of the record made, once made

analyzerVars == <<heap, localSkills, referenceSkills, heapAtCall, result, analyzePc>>

cacheVars == <<now, cacheTimeout, cache, lookup>>

treeVars == <<scanTree, scanRepoPath, uniquePaths, scanPc>>

poolVars == <<poolFiles, poolI, poolPc, poolFetch, poolResults, poolLog>>

importVars == <<fs, importSkills, importCall, importAllPc, totalImported, importNotices>>

fetchAllVars == <<repositories, repoProc, fetchAllPc, allSkills, errors,
                  aggregateWarnings, settledOutOfOrder>>

nameVars == <<docText, docFallback, extractedName>>

scannerVars == <<customPaths, scanPaths, rootCall, scanAllPc, scanSkills,
                 rootsOutOfOrder>>

clientVars == <<githubToken, clientCalls, rateLimitWarnings, clearedKeys,
               preClearCalls, staleData>>

installVars == <<installSkill, installPc, installOps, totalInstalled, installNotices>>

parserVars == <<mdOrigin, mdContent, mdParsed>>

performVars == <<isScanning, scanQueued, debounceArmed, scanPasses, lastScanStart,
                 fsVersion, skillsVersion, handlers, scanRequests>>

deleteVars == <<deleteFsBefore, deleteFs, deletedSkill, deleteOutcome>>

sourceVars == <<srcGlobalPath, srcScanPath, srcRecord>>

vars == <<analyzerVars, cacheVars, treeVars, poolVars, importVars, fetchAllVars,
          nameVars, scannerVars, clientVars, installVars, parserVars, performVars, deleteVars, sourceVars>>

(***************************************************************************)
(* Bounds                                                                  *)
(***************************************************************************)
MaxLocal == 2       \* longest local list enumerated exhaustively
MaxRef == 3         \* longest reference list enumerated exhaustively
MaxCoverageRef == 40 \* longest reference list of the coverage sweep
MaxClockTicks == 5  \* how many times the clock advances
MaxFiles == 12      \* longest file list handed to the batch downloader
MaxDocLines == 3    \* most lines of a document handed to extractName
MaxClientCalls == 3 \* most fetches made of one client
MaxYamlLines == 3   \* most lines of a front-matter block handed to parseSkillMd
MaxScanRequests == 3 \* most scans asked for by the rescan command, startup and the watchers
MaxMutations == 1   \* most import, delete and install handlers run

SeqsUpTo(S, n) == UNION {[1..k -> S] : k \in 0..n}

(***************************************************************************)
(* IEEE-754 double arithmetic, as far as analyze uses it                   *)
(***************************************************************************)
MantissaBits == 53

Zero == [m |-> <<>>, e |-> 0]

RECURSIVE Pow2(_)
Pow2(n) == IF n = 0 THEN 1 ELSE 2 * Pow2(n - 1)

RECURSIVE BitsToInt(_)
BitsToInt(bits) ==
    IF bits = <<>> THEN 0
    ELSE 2 * BitsToInt(SubSeq(bits, 1, Len(bits) - 1)) + bits[Len(bits)]

RECURSIVE AnyOne(_)
AnyOne(bits) ==
    IF bits = <<>> THEN FALSE ELSE bits[1] = 1 \/ AnyOne(Tail(bits))

RECURSIVE StripLeadingZeros(_)
StripLeadingZeros(bits) ==
    IF bits # <<>> /\ bits[1] = 0 THEN StripLeadingZeros(Tail(bits)) ELSE bits

\* bits + 1, same length; an all-ones input wraps to all zeros
RECURSIVE Increment(_)
Increment(bits) ==
    IF bits = <<>> THEN <<>>
    ELSE IF bits[Len(bits)] = 0
         THEN Append(SubSeq(bits, 1, Len(bits) - 1), 1)
         ELSE Append(Increment(SubSeq(bits, 1, Len(bits) - 1)), 0)

\* Round-to-nearest, ties-to-even: m is the 53 leading bits of the exact
\* value, guard the next bit, sticky whether any later bit is set.
RoundNearestEven(m, e, guard, sticky) ==
    IF guard = 1 /\ (sticky \/ m[MantissaBits] = 1)
    THEN IF AnyOne([i \in 1..MantissaBits |-> 1 - m[i]])
         THEN [m |-> Increment(m), e |-> e]
         ELSE [m |-> <<1>> \o [i \in 1..(MantissaBits - 1) |-> 0], e |-> e + 1]
    ELSE [m |-> m, e |-> e]

\* acc followed by the next k bits of r/t (0 <= r < t), and the remainder
\* left after them
RECURSIVE FracBits(_, _, _, _)
FracBits(r, t, k, acc) ==
    IF k = 0 THEN [bits |-> acc, rem |-> r]
    ELSE IF 2 * r >= t
         THEN FracBits(2 * r - t, t, k - 1, Append(acc, 1))
         ELSE FracBits(2 * r, t, k - 1, Append(acc, 0))

\* the least s with p * 2^s >= t
RECURSIVE ShiftToOne(_, _)
ShiftToOne(p, t) == IF p >= t THEN 0 ELSE 1 + ShiftToOne(2 * p, t)

\* the double nearest to p / t, for integers 0 <= p <= t, t > 0
FDiv(p, t) ==
    IF p = 0 THEN Zero
    ELSE LET s == ShiftToOne(p, t)
             q == FracBits(p * Pow2(s) - t, t, MantissaBits, <<>>)
         IN  RoundNearestEven(<<1>> \o SubSeq(q.bits, 1, MantissaBits - 1), -s,
                              q.bits[MantissaBits], q.rem # 0)

\* (bits * k + carry) followed by acc, as a bit string (k a small integer)
RECURSIVE MulSmallCarry(_, _, _, _)
MulSmallCarry(bits, k, carry, acc) ==
    IF bits = <<>>
    THEN IF carry = 0 THEN acc
         ELSE MulSmallCarry(<<>>, k, carry \div 2, <<carry % 2>> \o acc)
    ELSE MulSmallCarry(SubSeq(bits, 1, Len(bits) - 1), k,
                       (bits[Len(bits)] * k + carry) \div 2,
                       <<(bits[Len(bits)] * k + carry) % 2>> \o acc)

\* the double nearest to x * k
FMulSmall(x, k) ==
    IF x = Zero THEN Zero
    ELSE LET prod == StripLeadingZeros(MulSmallCarry(x.m, k, 0, <<>>))
             e    == x.e - (MantissaBits - 1) + (Len(prod) - 1)
         IN  IF Len(prod) <= MantissaBits
             THEN [m |-> prod \o [i \in 1..(MantissaBits - Len(prod)) |-> 0], e |-> e]
             ELSE RoundNearestEven(SubSeq(prod, 1, MantissaBits), e,
                                   prod[MantissaBits + 1],
                                   AnyOne(SubSeq(prod, MantissaBits + 2, Len(prod))))

\* Math.round of a non-negative double below 2^52: floor(x + 0.5), exactly
MathRound(x) ==
    IF x = Zero \/ x.e < -1 THEN 0
    ELSE IF x.e = -1 THEN 1
    ELSE BitsToInt(SubSeq(x.m, 1, x.e + 1)) + x.m[x.e + 2]

\* round(a / b) in exact arithmetic, ties upward (a >= 0, b > 0)
ExactRound(a, b) == (2 * a + b) \div (2 * b)

(***************************************************************************)
(* GitHubSkillsClient: the cache                                           *)
(***************************************************************************)
ClockStep == 500            \* milliseconds between two readings of the clock
CacheTimeoutChoices == {1, 2}  \* configured values of cacheTimeout, in seconds

\* `tree:${owner}/${repo}@${branch}`
TreeKey(owner, repo, branch) == <<"tree", owner, repo, branch>>

\* `raw:${owner}/${repo}/${filePath}@${branch}`
RawKey(owner, repo, filePath, branch) == <<"raw", owner, repo, filePath, branch>>

EmptyCache == <<>>

MapPut(map, key, value) ==
    [k \in DOMAIN map \cup {key} |-> IF k = key THEN value ELSE map[k]]

MapDelete(map, key) == [k \in DOMAIN map \ {key} |-> map[k]]

\* `config.get<number>("cacheTimeout", 3600) * 1000`
TimeoutMs(seconds) == seconds * 1000

\* mutant of IsExpired: an entry expires as soon as its age reaches the timeout
IsExpiredAtTimeout(entry, t, timeout) == t - entry.timestamp >= timeout

\* `Date.now() - entry.timestamp > timeout`
IsExpired(entry, t, timeout) == t - entry.timestamp > timeout

\* getFromCache(key) at time t: the value returned (<<>> for null,
\* <<data>> otherwise) and the cache it leaves
GetFromCache(c, key, t, timeout) ==
    IF key \notin DOMAIN c THEN [cache |-> c, value |-> <<>>]
    ELSE IF IsExpired(c[key], t, timeout)
         THEN [cache |-> MapDelete(c, key), value |-> <<>>]
         ELSE [cache |-> c, value |-> <<c[key].data>>]

\* setCache(key, data) at time t
SetCache(c, key, data, t) == MapPut(c, key, [data |-> data, timestamp |-> t])

CacheKeys ==
    { TreeKey("anthropics", "skills", "main"),
      RawKey("anthropics", "skills", <<"skills", "alpha", "SKILL.md">>, "main") }

CacheData == {"v1", "v2"}

CacheInit ==
    /\ now = 0
    /\ cacheTimeout \in CacheTimeoutChoices
    /\ cache = EmptyCache
    /\ lookup = <<>>

CacheIdle ==
    /\ now = 0
    /\ cacheTimeout = 0
    /\ cache = EmptyCache
    /\ lookup = <<>>

\* time passes
Tick ==
    /\ now < MaxClockTicks * ClockStep
    /\ now' = now + ClockStep
    /\ UNCHANGED <<cacheTimeout, cache, lookup>>

SetCacheCall(key, data) ==
    /\ cache' = SetCache(cache, key, data, now)
    /\ UNCHANGED <<now, cacheTimeout, lookup>>

GetFromCacheCall(key) ==
    /\ cache' = GetFromCache(cache, key, now, TimeoutMs(cacheTimeout)).cache
    /\ lookup' = << [key |-> key, at |-> now,
                     entry |-> IF key \in DOMAIN cache THEN <<cache[key]>> ELSE <<>>,
                     value |-> GetFromCache(cache, key, now,
                                            TimeoutMs(cacheTimeout)).value] >>
    /\ UNCHANGED <<now, cacheTimeout>>

\* mutant of ClearedCache: nothing is dropped
NotCleared(c) == c

\* `this.cache.clear()`
ClearedCache(c) == EmptyCache

ClearCacheCall ==
    /\ cache' = ClearedCache(cache)
    /\ UNCHANGED <<now, cacheTimeout, lookup>>

(***************************************************************************)
(* GitHubSkillsClient.fetchSkillsFromRepo: the skill paths of a tree       *)
(***************************************************************************)
SKILL_FILE_NAME == "SKILL.md"

Blob(path) == [path |-> path, type |-> "blob"]
TreeDir(path) == [path |-> path, type |-> "tree"]

\* `repo.path ? (repo.path.endsWith('/') ? repo.path : repo.path + '/') : ''`:
\* the segments that the prefix string spells before its final "/"
PathPrefix(repoPath) == repoPath

\* `item.path.startsWith(prefix)`, the prefix being empty or ending in "/"
StartsWithPrefix(path, prefix) ==
    /\ Len(path) > Len(prefix)
    /\ SubSeq(path, 1, Len(prefix)) = prefix

\* `item.path.endsWith("/SKILL.md") || item.path === "SKILL.md"`
IsSkillFilePath(path) ==
    \/ Len(path) >= 2 /\ path[Len(path)] = SKILL_FILE_NAME
    \/ path = <<SKILL_FILE_NAME>>

\* the filter of fetchSkillsFromRepo
IsSkillBlob(item, prefix) ==
    /\ item.type = "blob"
    /\ StartsWithPrefix(item.path, prefix)
    /\ IsSkillFilePath(item.path)

\* `idx === -1 ? "" : item.path.substring(0, idx)` with idx the last "/"
ParentDir(path) == SubSeq(path, 1, Len(path) - 1)

\* `Array.from(new Set(seq))`: first occurrences, in order
RECURSIVE Dedup(_, _)
Dedup(seq, seen) ==
    IF seq = <<>> THEN <<>>
    ELSE IF seq[1] \in seen THEN Dedup(Tail(seq), seen)
         ELSE <<seq[1]>> \o Dedup(Tail(seq), seen \cup {seq[1]})

RECURSIVE SkillPathsOf(_, _)
SkillPathsOf(tree, prefix) ==
    IF tree = <<>> THEN <<>>
    ELSE IF IsSkillBlob(tree[1], prefix)
         THEN <<ParentDir(tree[1].path)>> \o SkillPathsOf(Tail(tree), prefix)
         ELSE SkillPathsOf(Tail(tree), prefix)

UniqueSkillPaths(tree, repoPath) ==
    Dedup(SkillPathsOf(tree, PathPrefix(repoPath)), {})

\* The items a listing is drawn from, in the order of a git tree listing.
TreeUniverse ==
    << Blob(<<"README.md">>),
       Blob(<<"SKILL.md">>),
       TreeDir(<<"skills">>),
       Blob(<<"skills", "SKILL.md">>),
       TreeDir(<<"skills", "alpha">>),
       Blob(<<"skills", "alpha", "README.md">>),
       Blob(<<"skills", "alpha", "SKILL.md">>),
       Blob(<<"skills", "alpha", "examples", "SKILL.md">>),
       Blob(<<"skills", "beta", "SKILL.md">>),
       TreeDir(<<"skills", "gamma", "SKILL.md">>) >>

RepoPathChoices == {<<>>, <<"skills">>, <<"skills", "alpha">>}

\* the subsequence of seq at the positions in keep
RECURSIVE Restrict(_, _, _)
Restrict(seq, keep, i) ==
    IF i > Len(seq) THEN <<>>
    ELSE IF i \in keep THEN <<seq[i]>> \o Restrict(seq, keep, i + 1)
         ELSE Restrict(seq, keep, i + 1)

TreeInit ==
    /\ \E keep \in SUBSET (1..Len(TreeUniverse)) :
          scanTree = Restrict(TreeUniverse, keep, 1)
    /\ scanRepoPath \in RepoPathChoices
    /\ uniquePaths = <<>>
    /\ scanPc = "ready"

TreeIdle ==
    /\ scanTree = <<>>
    /\ scanRepoPath = <<>>
    /\ uniquePaths = <<>>
    /\ scanPc = "idle"

\* lines 84-99 of fetchSkillsFromRepo on the listing scanTree
ExtractSkillPaths ==
    /\ scanPc = "ready"
    /\ uniquePaths' = UniqueSkillPaths(scanTree, scanRepoPath)
    /\ scanPc' = "done"
    /\ UNCHANGED <<scanTree, scanRepoPath>>

(***************************************************************************)
(* GitHubSkillsClient.fetchRawContent and fetchFilesWithPool               *)
(***************************************************************************)
PoolConcurrency == 5

Min(a, b) == IF a < b THEN a ELSE b

\* `if (cached)` on a string or null
IsTruthyString(value) == value # <<>> /\ value[1] # ""

FileNames ==
    << "f01", "f02", "f03", "f04", "f05", "f06", "f07", "f08",
       "f09", "f10", "f11", "f12", "f13", "f14", "f15", "f16" >>

PoolOwner == "anthropics"
PoolRepo == "skills"
PoolBranch == "main"
PoolSkillPath == <<"skills", "alpha">>

\* the argument fetchSkillFiles builds for a skill of n files
PoolFileList(n) ==
    [k \in 1..n |-> [remotePath |-> Append(PoolSkillPath, FileNames[k]),
                     relativePath |-> <<FileNames[k]>>]]

\* what the raw-content endpoint serves for a path; the file f03 is empty
RemoteContent(remotePath) ==
    IF remotePath[Len(remotePath)] = "f03" THEN "" ELSE remotePath[Len(remotePath)]

PoolKey(file) == RawKey(PoolOwner, PoolRepo, file.remotePath, PoolBranch)

\* lines 197-204 of fetchRawContent: the cache lookup made when the call is
\* issued; a hit completes the call, a miss sends the request
RawCallIssued(c, key, t, timeout) ==
    [cache |-> GetFromCache(c, key, t, timeout).cache,
     call  |-> IF IsTruthyString(GetFromCache(c, key, t, timeout).value)
               THEN [status |-> "hit", content |-> GetFromCache(c, key, t, timeout).value]
               ELSE [status |-> "pending", content |-> <<>>]]

\* `batch.map(async ...)`: the calls for the files k..last, issued in order
RECURSIVE IssueBatch(_, _, _, _, _, _, _)
IssueBatch(c, fetch, files, k, last, t, timeout) ==
    IF k > last THEN [cache |-> c, fetch |-> fetch]
    ELSE IssueBatch(RawCallIssued(c, PoolKey(files[k]), t, timeout).cache,
                    MapPut(fetch, k, RawCallIssued(c, PoolKey(files[k]), t, timeout).call),
                    files, k + 1, last, t, timeout)

\* mutant of BatchEnd: the batch is all the files that are left
RestOfFiles(i, n) == n

\* the last file index of the batch that starts after i files
BatchEnd(i, n) == Min(i + PoolConcurrency, n)

\* mutant of MoreBatchesFollow: the pause is taken after every batch
BatchJustRan(i, n) == i < n

\* `i + concurrency < files.length`
MoreBatchesFollow(i, n) == i + PoolConcurrency < n

BatchResults(files, fetch, i, n) ==
    [j \in 1..(BatchEnd(i, n) - i) |->
        [path |-> files[i + j].relativePath, content |-> fetch[i + j].content[1]]]

PoolInit ==
    /\ \E n \in 0..MaxFiles : poolFiles = PoolFileList(n)
    /\ poolI = 0
    /\ poolPc = "ready"
    /\ poolFetch = <<>>
    /\ poolResults = <<>>
    /\ poolLog = <<>>

PoolIdle ==
    /\ poolFiles = <<>>
    /\ poolI = 0
    /\ poolPc = "idle"
    /\ poolFetch = <<>>
    /\ poolResults = <<>>
    /\ poolLog = <<>>

\* the cache a download may find: empty, or seeded by an earlier fetch
PoolCacheInit ==
    /\ now = 0
    /\ cacheTimeout = 1
    /\ cache \in { EmptyCache,
                    SetCache(EmptyCache, PoolKey(PoolFileList(1)[1]), "f01", 0),
                    SetCache(EmptyCache, PoolKey(PoolFileList(3)[3]), "", 0) }
    /\ lookup = <<>>

\* the loop of fetchFilesWithPool entered at index i: the next batch is
\* issued, or the loop ends and the results are returned
PoolLoop(i) ==
    /\ poolI' = i
    /\ IF i < Len(poolFiles)
       THEN /\ cache' = IssueBatch(cache, poolFetch, poolFiles, i + 1,
                                   BatchEnd(i, Len(poolFiles)), now,
                                   TimeoutMs(cacheTimeout)).cache
            /\ poolFetch' = IssueBatch(cache, poolFetch, poolFiles, i + 1,
                                       BatchEnd(i, Len(poolFiles)), now,
                                       TimeoutMs(cacheTimeout)).fetch
            /\ poolLog' = Append(poolLog, BatchEnd(i, Len(poolFiles)) - i)
            /\ poolPc' = "batch"
       ELSE /\ poolPc' = "resolved"
            /\ UNCHANGED <<cache, poolFetch, poolLog>>

\* fetchFilesWithPool is called
PoolStart ==
    /\ poolPc = "ready"
    /\ PoolLoop(0)
    /\ UNCHANGED <<poolFiles, poolResults, now, cacheTimeout, lookup>>

\* lines 206-212 of fetchRawContent: the response of file k arrives, ok
PoolFetchOk(k) ==
    /\ k \in DOMAIN poolFetch
    /\ poolFetch[k].status = "pending"
    /\ cache' = SetCache(cache, PoolKey(poolFiles[k]),
                         RemoteContent(poolFiles[k].remotePath), now)
    /\ poolFetch' = [poolFetch EXCEPT
                       ![k] = [status |-> "ok",
                               content |-> <<RemoteContent(poolFiles[k].remotePath)>>]]
    /\ UNCHANGED <<poolFiles, poolI, poolPc, poolResults, poolLog,
                   now, cacheTimeout, lookup>>

\* mutant of PcAfterFailure: the failure of a file is not passed on
PcIgnoringFailure(pc) == pc

\* lines 255-260: a call of the batch throws and the pending Promise.all
\* rejects, which ends fetchFilesWithPool
PcAfterFailure(pc) == IF pc = "batch" THEN "rejected" ELSE pc

\* the request of file k fails: fetchRawContent throws, and the
\* Promise.all of its batch, if still pending, rejects
PoolFetchFail(k) ==
    /\ k \in DOMAIN poolFetch
    /\ poolFetch[k].status = "pending"
    /\ poolFetch' = [poolFetch EXCEPT ![k] = [status |-> "failed", content |-> <<>>]]
    /\ poolPc' = PcAfterFailure(poolPc)
    /\ UNCHANGED <<poolFiles, poolI, poolResults, poolLog, cacheVars>>

\* lines 262-266: the Promise.all of the batch resolves
PoolBatchResolved ==
    /\ poolPc = "batch"
    /\ \A k \in (poolI + 1)..BatchEnd(poolI, Len(poolFiles)) :
          poolFetch[k].status \in {"hit", "ok"}
    /\ poolResults' = poolResults \o BatchResults(poolFiles, poolFetch, poolI,
                                                  Len(poolFiles))
    /\ IF MoreBatchesFollow(poolI, Len(poolFiles))
       THEN /\ poolPc' = "pause"
            /\ poolLog' = Append(poolLog, 0)
            /\ UNCHANGED <<poolI, poolFetch, cacheVars>>
       ELSE /\ PoolLoop(poolI + PoolConcurrency)
            /\ UNCHANGED <<now, cacheTimeout, lookup>>
    /\ UNCHANGED poolFiles

\* the timer of the pause fires: `i += concurrency` and the loop goes on
PoolPauseElapsed ==
    /\ poolPc = "pause"
    /\ PoolLoop(poolI + PoolConcurrency)
    /\ UNCHANGED <<poolFiles, poolResults, now, cacheTimeout, lookup>>

(***************************************************************************)
(* GapAnalyzer.analyze                                                     *)
(***************************************************************************)
Active == "active"
Missing == "missing"
Imported == "imported"

\* mutant of SpreadWithStatus: `skill.status = status` on the argument itself
AssignStatusInPlace(h, ref, status) ==
    [heap |-> [h EXCEPT ![ref].status = status], ref |-> ref]

\* `{ ...skill, status }`: a new object, every field of h[ref] but status
SpreadWithStatus(h, ref, status) ==
    [heap |-> Append(h, [h[ref] EXCEPT !.status = status]), ref |-> Len(h) + 1]

\* `new Set(localSkills.map((s) => s.normalizedName))`
LocalNames(h, L) == {h[L[i]].normalizedName : i \in 1..Len(L)}

\* mutant of IsPresent: the lookup uses the display name
IsPresentByName(localNames, skill) == skill.name \in localNames

\* `localNames.has(skill.normalizedName)`
IsPresent(localNames, skill) == skill.normalizedName \in localNames

\* mutant of AnalyzeLoop: a record that is not present is dropped
RECURSIVE AnalyzeLoopDropsMissing(_, _, _, _, _, _)
AnalyzeLoopDropsMissing(h, localNames, R, i, present, missing) ==
    IF i > Len(R) THEN [heap |-> h, present |-> present, missing |-> missing]
    ELSE IF IsPresent(localNames, h[R[i]])
         THEN AnalyzeLoopDropsMissing(SpreadWithStatus(h, R[i], Active).heap, localNames,
                          R, i + 1,
                          Append(present, SpreadWithStatus(h, R[i], Active).ref), missing)
         ELSE AnalyzeLoopDropsMissing(h, localNames, R, i + 1, present, missing)

\* the for loop of analyze from index i on
RECURSIVE AnalyzeLoop(_, _, _, _, _, _)
AnalyzeLoop(h, localNames, R, i, present, missing) ==
    IF i > Len(R) THEN [heap |-> h, present |-> present, missing |-> missing]
    ELSE IF IsPresent(localNames, h[R[i]])
         THEN AnalyzeLoop(SpreadWithStatus(h, R[i], Active).heap, localNames, R, i + 1,
                          Append(present, SpreadWithStatus(h, R[i], Active).ref), missing)
         ELSE AnalyzeLoop(SpreadWithStatus(h, R[i], Missing).heap, localNames, R, i + 1,
                          present, Append(missing, SpreadWithStatus(h, R[i], Missing).ref))

\* `totalAvailable > 0 ? Math.round((present.length / totalAvailable) * 100) : 100`
CoveragePercentage(presentLength, totalAvailable) ==
    IF totalAvailable > 0
    THEN MathRound(FMulSmall(FDiv(presentLength, totalAvailable), 100))
    ELSE 100

TotalAvailable(R) == Len(R)

Analyze(h, L, R) ==
    LET loop == AnalyzeLoop(h, LocalNames(h, L), R, 1, <<>>, <<>>)
    IN  [heap |-> loop.heap,
         value |-> [present |-> loop.present,
                    missing |-> loop.missing,
                    totalAvailable |-> TotalAvailable(R),
                    coveragePercentage |->
                        CoveragePercentage(Len(loop.present), TotalAvailable(R))]]

\* The skills of the enumerated inputs: name, normalizedName and path.
SkillTable ==
    { [name |-> "Foo",  normalizedName |-> "foo"],
      [name |-> "F oo", normalizedName |-> "foo"],
      [name |-> "Bar",  normalizedName |-> "bar"],
      [name |-> "Baz",  normalizedName |-> "baz"] }

SkillObject(entry, root, status) ==
    [name |-> entry.name, normalizedName |-> entry.normalizedName,
     path |-> <<root, entry.name, "SKILL.md">>, status |-> status]

LocalObjects == {SkillObject(e, "workspace", Active) : e \in SkillTable}
ReferenceObjects == {SkillObject(e, "global", Imported) : e \in SkillTable}

NoResult == [present |-> <<>>, missing |-> <<>>, totalAvailable |-> 0,
             coveragePercentage |-> 0]

\* analyze's arguments laid out on the heap: L first, then R
AnalyzerInputs(L, R) ==
    /\ heap = L \o R
    /\ localSkills = [i \in 1..Len(L) |-> i]
    /\ referenceSkills = [i \in 1..Len(R) |-> Len(L) + i]
    /\ heapAtCall = L \o R
    /\ result = NoResult
    /\ analyzePc = "ready"

\* n reference records of which the first p are present locally
CoverageSweepInput(p, n) ==
    [i \in 1..n |->
        SkillObject(IF i <= p THEN [name |-> "Foo", normalizedName |-> "foo"]
                              ELSE [name |-> "Bar", normalizedName |-> "bar"],
                    "global", Imported)]

AnalyzerInit ==
    \/ \E L \in SeqsUpTo(LocalObjects, MaxLocal), R \in SeqsUpTo(ReferenceObjects, MaxRef) :
            AnalyzerInputs(L, R)
    \/ \E n \in 0..MaxCoverageRef : \E p \in 0..n :
            AnalyzerInputs(<<SkillObject([name |-> "Foo", normalizedName |-> "foo"],
                                         "workspace", Active)>>,
                           CoverageSweepInput(p, n))

AnalyzerIdle ==
    /\ heap = <<>>
    /\ localSkills = <<>>
    /\ referenceSkills = <<>>
    /\ heapAtCall = <<>>
    /\ result = NoResult
    /\ analyzePc = "idle"

\* one call analyze(localSkills, referenceSkills)
AnalyzeCall ==
    /\ analyzePc = "ready"
    /\ heapAtCall' = heap
    /\ heap' = Analyze(heap, localSkills, referenceSkills).heap
    /\ result' = Analyze(heap, localSkills, referenceSkills).value
    /\ analyzePc' = "returned"
    /\ UNCHANGED <<localSkills, referenceSkills>>

(***************************************************************************)
(* GitHubSkillsClient.fetchAllSkills and the fetches below it              *)
(***************************************************************************)
Repository(owner, repo, path, branch, singleSkill) ==
    [owner |-> owner, repo |-> repo, path |-> path, branch |-> branch,
     singleSkill |-> singleSkill]

DEFAULT_SKILL_REPOSITORIES ==
    << Repository("x7dl8p", "OpenSkill-Marketplace", <<"skills">>, "main", FALSE),
       Repository("anthropics", "skills", <<"skills">>, "main", FALSE),
       Repository("vercel-labs", "agent-skills", <<"skills">>, "main", FALSE),
       Repository("openai", "skills", <<"skills", ".curated">>, "main", FALSE),
       Repository("pytorch", "pytorch", <<".claude", "skills">>, "main", FALSE),
       Repository("microsoftdocs", "mcp", <<"skills">>, "main", FALSE) >>

\* the setting open-skills.skillRepositories: nothing, a single-skill
\* repository, or a second path into a default repository
CustomRepositoryChoices ==
    { <<>>,
      << Repository("acme", "solo-skill", <<>>, "main", TRUE) >>,
      << Repository("anthropics", "skills", <<"skills", "alpha", "examples">>,
                    "main", FALSE) >> }

\* What the tree-listing endpoint serves for a repository.
RemoteTree(owner, repo) ==
    IF owner = "anthropics"
    THEN << Blob(<<"README.md">>),
            TreeDir(<<"skills">>),
            TreeDir(<<"skills", "alpha">>),
            Blob(<<"skills", "alpha", "SKILL.md">>),
            TreeDir(<<"skills", "alpha", "examples">>),
            Blob(<<"skills", "alpha", "examples", "SKILL.md">>),
            Blob(<<"skills", "alpha", "examples", "metadata.json">>) >>
    ELSE IF owner = "openai"
    THEN << TreeDir(<<"skills">>), TreeDir(<<"skills", "other">>),
            Blob(<<"skills", "other", "SKILL.md">>) >>
    ELSE << Blob(<<"README.md">>) >>

\* What the raw-content endpoint serves: <<>> where there is no such file.
RemoteFile(owner, repo, filePath) ==
    IF owner = "anthropics" /\ filePath = <<"skills", "alpha", "SKILL.md">>
    THEN <<"alpha document">>
    ELSE IF owner = "anthropics" /\ filePath = <<"skills", "alpha", "examples", "SKILL.md">>
    THEN <<"examples document">>
    ELSE IF owner = "anthropics"
            /\ filePath = <<"skills", "alpha", "examples", "metadata.json">>
    THEN <<"examples metadata">>
    ELSE IF owner = "acme" /\ filePath = <<"SKILL.md">>
    THEN <<"solo document">>
    ELSE <<>>

\* parseSkillMd(content).metadata for the documents served: the alpha and
\* solo documents carry a front matter, the examples document carries none
ParsedMetadata(content) ==
    IF content = "alpha document"
    THEN [name |-> "Alpha", description |-> "The alpha skill"]
    ELSE IF content = "solo document"
    THEN [name |-> "Solo", description |-> "A skill alone in its repository"]
    ELSE [name |-> "", description |-> ""]

\* JSON.parse(metaRaw) for the metadata.json served
ParsedJson(metaRaw) ==
    IF metaRaw = "examples metadata"
    THEN [abstract |-> "Examples of alpha", organization |-> "anthropics"]
    ELSE [abstract |-> "", organization |-> ""]

\* `${skillPath}/SKILL.md` or "SKILL.md", `${skillPath}/metadata.json` or ...
SkillDocPath(skillPath) == Append(skillPath, "SKILL.md")
SkillMetaPath(skillPath) == Append(skillPath, "metadata.json")

\* `skillPath.split("/").pop() || repo.repo`
SkillNameOf(repo, skillPath) ==
    IF skillPath = <<>> THEN repo.repo ELSE skillPath[Len(skillPath)]

\* lines 164-170: the enrichment from metadata.json
Enriched(metadata, json, skillName) ==
    [name |-> IF json.organization # "" /\ metadata.name = ""
              THEN <<json.organization, ": ", skillName>>
              ELSE <<metadata.name>>,
     description |-> IF json.abstract # "" THEN json.abstract ELSE metadata.description]

NotEnriched(metadata) == [name |-> <<metadata.name>>, description |-> metadata.description]

\* lines 176-185: the MarketplaceSkill returned
MarketplaceSkillOf(repo, skillPath, metadata) ==
    [name |-> IF metadata.name = <<"">> THEN <<SkillNameOf(repo, skillPath)>>
              ELSE metadata.name,
     description |-> IF metadata.description = "" THEN "No description available"
                     ELSE metadata.description,
     source |-> repo,
     skillPath |-> skillPath]

SkillCallDone(skillPath, value) ==
    [path |-> skillPath, pc |-> "done", document |-> "", value |-> value]

SkillCallPending(skillPath, pc, document) ==
    [path |-> skillPath, pc |-> pc, document |-> document, value |-> <<>>]

\* lines 158-188 of fetchSkillMetadata once the document is there: up to the
\* return, or to the request for metadata.json
SkillAfterDocument(c, repo, skillPath, document, t, timeout) ==
    IF ParsedMetadata(document).description # ""
    THEN [cache |-> c,
          call |-> SkillCallDone(skillPath,
                      <<MarketplaceSkillOf(repo, skillPath,
                                           NotEnriched(ParsedMetadata(document)))>>)]
    ELSE LET issued == RawCallIssued(c, RawKey(repo.owner, repo.repo,
                                               SkillMetaPath(skillPath), repo.branch),
                                     t, timeout)
         IN  [cache |-> issued.cache,
              call |-> IF issued.call.status = "hit"
                       THEN SkillCallDone(skillPath,
                               <<MarketplaceSkillOf(repo, skillPath,
                                    Enriched(ParsedMetadata(document),
                                             ParsedJson(issued.call.content[1]),
                                             SkillNameOf(repo, skillPath)))>>)
                       ELSE SkillCallPending(skillPath, "metajson", document)]

\* fetchSkillMetadata is called: up to its first suspension
SkillStart(c, repo, skillPath, t, timeout) ==
    LET issued == RawCallIssued(c, RawKey(repo.owner, repo.repo,
                                          SkillDocPath(skillPath), repo.branch),
                                t, timeout)
    IN  IF issued.call.status = "hit"
        THEN SkillAfterDocument(issued.cache, repo, skillPath,
                                issued.call.content[1], t, timeout)
        ELSE [cache |-> issued.cache,
              call |-> SkillCallPending(skillPath, "skillmd", "")]

\* `uniquePaths.map(async ...)`: the calls for the paths k.., issued in order
RECURSIVE IssueSkills(_, _, _, _, _, _, _)
IssueSkills(c, repo, paths, k, calls, t, timeout) ==
    IF k > Len(paths) THEN [cache |-> c, calls |-> calls]
    ELSE IssueSkills(SkillStart(c, repo, paths[k], t, timeout).cache, repo, paths, k + 1,
                     Append(calls, SkillStart(c, repo, paths[k], t, timeout).call),
                     t, timeout)

\* `results.filter((s) => s !== null)`
RECURSIVE NonNull(_)
NonNull(calls) ==
    IF calls = <<>> THEN <<>> ELSE calls[1].value \o NonNull(Tail(calls))

\* a fetchSkillsFromRepo call whose skill calls have all returned is fulfilled
Settled(proc) ==
    IF proc.pc = "skills" /\ \A j \in 1..Len(proc.calls) : proc.calls[j].pc = "done"
    THEN [proc EXCEPT !.pc = "fulfilled", !.value = NonNull(proc.calls)]
    ELSE proc

RepoProc(pc, calls, reason) ==
    [pc |-> pc, calls |-> calls, value |-> <<>>, reason |-> reason]

\* lines 84-112 of fetchSkillsFromRepo, once the tree is there
RepoAfterTree(c, repo, tree, t, timeout) ==
    LET issued == IssueSkills(c, repo, UniqueSkillPaths(tree, repo.path), 1, <<>>,
                              t, timeout)
    IN  [cache |-> issued.cache, proc |-> Settled(RepoProc("skills", issued.calls, ""))]

\* mutant of RepoStart: the skill calls are issued without the tree listing
RepoStartWithoutTree(c, repo, t, timeout) ==
    RepoAfterTree(c, repo, RemoteTree(repo.owner, repo.repo), t, timeout)

\* fetchSkillsFromRepo(repo) is called: up to its first suspension
RepoStart(c, repo, t, timeout) ==
    IF repo.singleSkill
    THEN LET started == SkillStart(c, repo, repo.path, t, timeout)
         IN  [cache |-> started.cache,
              proc |-> Settled(RepoProc("skills", <<started.call>>, ""))]
    ELSE LET found == GetFromCache(c, TreeKey(repo.owner, repo.repo, repo.branch),
                                   t, timeout)
         IN  IF found.value # <<>>
             THEN RepoAfterTree(found.cache, repo, found.value[1], t, timeout)
             ELSE [cache |-> found.cache, proc |-> RepoProc("tree", <<>>, "")]

\* `repositories.map(async (repo) => ...)`: the calls for the repositories
\* k.., issued in order
RECURSIVE StartRepos(_, _, _, _, _, _)
StartRepos(c, repos, k, procs, t, timeout) ==
    IF k > Len(repos) THEN [cache |-> c, procs |-> procs]
    ELSE StartRepos(RepoStart(c, repos[k], t, timeout).cache, repos, k + 1,
                    Append(procs, RepoStart(c, repos[k], t, timeout).proc), t, timeout)

HasSettled(proc) == proc.pc \in {"fulfilled", "rejected"}

\* mutant of CollectSkills: the collection stops at the first rejected result
RECURSIVE CollectUntilRejected(_, _)
CollectUntilRejected(procs, k) ==
    IF k > Len(procs) \/ procs[k].pc = "rejected" THEN <<>>
    ELSE procs[k].value \o CollectUntilRejected(procs, k + 1)

\* lines 58-62: the values of the fulfilled results, in the order of results
RECURSIVE CollectSkills(_, _)
CollectSkills(procs, k) ==
    IF k > Len(procs) THEN <<>>
    ELSE IF procs[k].pc = "fulfilled"
         THEN procs[k].value \o CollectSkills(procs, k + 1)
         ELSE CollectSkills(procs, k + 1)

\* lines 62-65: one entry per rejected result
RECURSIVE CollectErrors(_, _, _)
CollectErrors(repos, procs, k) ==
    IF k > Len(procs) THEN <<>>
    ELSE IF procs[k].pc = "rejected"
         THEN << <<repos[k].owner, repos[k].repo, procs[k].reason>> >>
                  \o CollectErrors(repos, procs, k + 1)
         ELSE CollectErrors(repos, procs, k + 1)

\* mutant of ShouldWarn: any recorded error is reported
ShouldWarnOnAnyError(errs, skills) == Len(errs) > 0

\* `errors.length > 0 && allSkills.length === 0`
ShouldWarn(errs, skills) == Len(errs) > 0 /\ Len(skills) = 0

\* the message of the error that fetchRepoTree throws; the aggregation does
\* not look into it, and one message stands for the three of the source
TreeFailures == {"GitHub API error"}

FetchAllInit ==
    /\ \E custom \in CustomRepositoryChoices :
          repositories = DEFAULT_SKILL_REPOSITORIES \o custom
    /\ repoProc = <<>>
    /\ fetchAllPc = "ready"
    /\ allSkills = <<>>
    /\ errors = <<>>
    /\ aggregateWarnings = 0
    /\ settledOutOfOrder = FALSE

FetchAllIdle ==
    /\ repositories = <<>>
    /\ repoProc = <<>>
    /\ fetchAllPc = "idle"
    /\ allSkills = <<>>
    /\ errors = <<>>
    /\ aggregateWarnings = 0
    /\ settledOutOfOrder = FALSE

\* the cache a catalog load may find: empty, or holding the tree that an
\* earlier load has fetched
FetchAllCacheInit ==
    /\ now = 0
    /\ cacheTimeout = 1
    /\ cache \in { EmptyCache,
                    SetCache(EmptyCache, TreeKey("anthropics", "skills", "main"),
                             RemoteTree("anthropics", "skills"), 0) }
    /\ lookup = <<>>

\* a call settles while the call of an earlier repository is still pending
OutOfOrder(before, after) ==
    \E i, k \in 1..Len(after) :
        /\ i < k
        /\ ~HasSettled(after[i])
        /\ HasSettled(after[k])
        /\ (k > Len(before) \/ ~HasSettled(before[k]))

\* fetchAllSkills is called: lines 40-56, up to the await of allSettled
FetchAllStart ==
    /\ fetchAllPc = "ready"
    /\ LET started == StartRepos(cache, repositories, 1, <<>>, now,
                                 TimeoutMs(cacheTimeout))
       IN  /\ cache' = started.cache
           /\ repoProc' = started.procs
           /\ settledOutOfOrder' = OutOfOrder(<<>>, started.procs)
    /\ fetchAllPc' = "running"
    /\ UNCHANGED <<repositories, allSkills, errors, aggregateWarnings,
                   now, cacheTimeout, lookup>>

\* lines 125-136 of fetchRepoTree: the tree listing of repository i arrives
TreeResponseOk(i) ==
    /\ i \in DOMAIN repoProc
    /\ repoProc[i].pc = "tree"
    /\ LET repo  == repositories[i]
           tree  == RemoteTree(repo.owner, repo.repo)
           after == RepoAfterTree(SetCache(cache,
                                           TreeKey(repo.owner, repo.repo, repo.branch),
                                           tree, now),
                                  repo, tree, now, TimeoutMs(cacheTimeout))
       IN  /\ cache' = after.cache
           /\ repoProc' = [repoProc EXCEPT ![i] = after.proc]
           /\ settledOutOfOrder' =
                 (settledOutOfOrder
                    \/ OutOfOrder(repoProc, [repoProc EXCEPT ![i] = after.proc]))
    /\ UNCHANGED <<repositories, fetchAllPc, allSkills, errors, aggregateWarnings,
                   now, cacheTimeout, lookup>>

\* lines 123-130 of fetchRepoTree: the request fails or is answered not ok
TreeResponseFail(i, reason) ==
    /\ i \in DOMAIN repoProc
    /\ repoProc[i].pc = "tree"
    /\ repoProc' = [repoProc EXCEPT ![i] = RepoProc("rejected", <<>>, reason)]
    /\ settledOutOfOrder' =
          (settledOutOfOrder
             \/ OutOfOrder(repoProc,
                           [repoProc EXCEPT ![i] = RepoProc("rejected", <<>>, reason)]))
    /\ UNCHANGED <<repositories, fetchAllPc, allSkills, errors, aggregateWarnings,
                   cacheVars>>

\* the call j of repository i moves on to `call`
SkillCallMoves(i, j, call) ==
    /\ repoProc' = [repoProc EXCEPT ![i] = Settled([@ EXCEPT !.calls[j] = call])]
    /\ settledOutOfOrder' =
          (settledOutOfOrder
             \/ OutOfOrder(repoProc,
                   [repoProc EXCEPT ![i] = Settled([@ EXCEPT !.calls[j] = call])]))

\* fetchRawContent of a SKILL.md returns its content
SkillDocOk(i, j) ==
    /\ i \in DOMAIN repoProc
    /\ j \in DOMAIN repoProc[i].calls
    /\ repoProc[i].calls[j].pc = "skillmd"
    /\ LET repo  == repositories[i]
           path  == repoProc[i].calls[j].path
           file  == RemoteFile(repo.owner, repo.repo, SkillDocPath(path))
       IN  /\ file # <<>>
           /\ LET after == SkillAfterDocument(
                               SetCache(cache,
                                        RawKey(repo.owner, repo.repo, SkillDocPath(path),
                                               repo.branch),
                                        file[1], now),
                               repo, path, file[1], now, TimeoutMs(cacheTimeout))
              IN  /\ cache' = after.cache
                  /\ SkillCallMoves(i, j, after.call)
    /\ UNCHANGED <<repositories, fetchAllPc, allSkills, errors, aggregateWarnings,
                   now, cacheTimeout, lookup>>

\* fetchRawContent of a SKILL.md throws: fetchSkillMetadata returns null
SkillDocFail(i, j) ==
    /\ i \in DOMAIN repoProc
    /\ j \in DOMAIN repoProc[i].calls
    /\ repoProc[i].calls[j].pc = "skillmd"
    /\ SkillCallMoves(i, j, SkillCallDone(repoProc[i].calls[j].path, <<>>))
    /\ UNCHANGED <<repositories, fetchAllPc, allSkills, errors, aggregateWarnings,
                   cacheVars>>

\* fetchRawContent of a metadata.json returns its content
SkillMetaOk(i, j) ==
    /\ i \in DOMAIN repoProc
    /\ j \in DOMAIN repoProc[i].calls
    /\ repoProc[i].calls[j].pc = "metajson"
    /\ LET repo == repositories[i]
           call == repoProc[i].calls[j]
           file == RemoteFile(repo.owner, repo.repo, SkillMetaPath(call.path))
       IN  /\ file # <<>>
           /\ cache' = SetCache(cache,
                                RawKey(repo.owner, repo.repo, SkillMetaPath(call.path),
                                       repo.branch),
                                file[1], now)
           /\ SkillCallMoves(i, j,
                 SkillCallDone(call.path,
                    <<MarketplaceSkillOf(repo, call.path,
                         Enriched(ParsedMetadata(call.document), ParsedJson(file[1]),
                                  SkillNameOf(repo, call.path)))>>))
    /\ UNCHANGED <<repositories, fetchAllPc, allSkills, errors, aggregateWarnings,
                   now, cacheTimeout, lookup>>

\* fetchRawContent of a metadata.json throws: the skill is not enriched
SkillMetaFail(i, j) ==
    /\ i \in DOMAIN repoProc
    /\ j \in DOMAIN repoProc[i].calls
    /\ repoProc[i].calls[j].pc = "metajson"
    /\ SkillCallMoves(i, j,
          SkillCallDone(repoProc[i].calls[j].path,
             <<MarketplaceSkillOf(repositories[i], repoProc[i].calls[j].path,
                  NotEnriched(ParsedMetadata(repoProc[i].calls[j].document)))>>))
    /\ UNCHANGED <<repositories, fetchAllPc, allSkills, errors, aggregateWarnings,
                   cacheVars>>

\* lines 58-75: allSettled has resolved; the results are collected, the
\* warning is shown or not, and fetchAllSkills returns
FetchAllSettled ==
    /\ fetchAllPc = "running"
    /\ \A i \in DOMAIN repoProc : HasSettled(repoProc[i])
    /\ allSkills' = CollectSkills(repoProc, 1)
    /\ errors' = CollectErrors(repositories, repoProc, 1)
    /\ aggregateWarnings' =
          IF ShouldWarn(CollectErrors(repositories, repoProc, 1),
                        CollectSkills(repoProc, 1))
          THEN aggregateWarnings + 1 ELSE aggregateWarnings
    /\ fetchAllPc' = "returned"
    /\ UNCHANGED <<repositories, repoProc, settledOutOfOrder, cacheVars>>

(***************************************************************************)
(* Strings.  A string that the code looks into is the sequence of its      *)
(* characters, each a one-character string.                                *)
(***************************************************************************)
IsLineTerminator(ch) == ch \in {"\n", "\r"}

\* the class \s of a regular expression, and the characters trim() removes
IsSpace(ch) == ch \in {" ", "\t", "\n", "\r"}

\* `^` under the flag m
IsLineStart(str, p) == p = 1 \/ IsLineTerminator(str[p - 1])

\* the position after the last character of the line that position p is in
RECURSIVE LineEnd(_, _)
LineEnd(str, p) ==
    IF p > Len(str) \/ IsLineTerminator(str[p]) THEN p ELSE LineEnd(str, p + 1)

\* how many whitespace characters follow from position p on
RECURSIVE SpaceRun(_, _)
SpaceRun(str, p) ==
    IF p > Len(str) \/ ~IsSpace(str[p]) THEN 0 ELSE 1 + SpaceRun(str, p + 1)

RECURSIVE TrimStart(_)
TrimStart(str) ==
    IF str # <<>> /\ IsSpace(str[1]) THEN TrimStart(Tail(str)) ELSE str

RECURSIVE TrimEnd(_)
TrimEnd(str) ==
    IF str # <<>> /\ IsSpace(str[Len(str)])
    THEN TrimEnd(SubSeq(str, 1, Len(str) - 1)) ELSE str

\* String.prototype.trim
Trim(str) == TrimEnd(TrimStart(str))

HasPrefixAt(str, p, prefix) ==
    /\ p + Len(prefix) - 1 <= Len(str)
    /\ SubSeq(str, p, p + Len(prefix) - 1) = prefix

SetMax(S) == CHOOSE x \in S : \A y \in S : y <= x
SetMin(S) == CHOOSE x \in S : \A y \in S : x <= y

\* The lengths that the greedy whitespace run of `prefix\s+(.+)$` (least 1) or
\* `prefix\s*(.+)$` (least 0) can take at position p so that (.+)$ matches
\* after it: the run may give back characters, and the first character of the
\* group must not be a line terminator.
SpaceRunChoices(str, p, prefix, least) ==
    { k \in least..SpaceRun(str, p + Len(prefix)) :
        /\ p + Len(prefix) + k <= Len(str)
        /\ ~IsLineTerminator(str[p + Len(prefix) + k]) }

MatchesAt(str, p, prefix, least) ==
    /\ IsLineStart(str, p)
    /\ HasPrefixAt(str, p, prefix)
    /\ SpaceRunChoices(str, p, prefix, least) # {}

\* group 1 of the match at position p: from the end of the longest possible
\* whitespace run to the end of that line
GroupAt(str, p, prefix, least) ==
    SubSeq(str, p + Len(prefix) + SetMax(SpaceRunChoices(str, p, prefix, least)),
           LineEnd(str, p + Len(prefix)
                          + SetMax(SpaceRunChoices(str, p, prefix, least))) - 1)

\* content.match(/^prefix\s+(.+)$/m) or /^prefix\s*(.+)$/m: <<>> for null,
\* <<group 1>> for the leftmost match
LineMatch(str, prefix, least) ==
    IF \E p \in 1..Len(str) : MatchesAt(str, p, prefix, least)
    THEN << GroupAt(str, SetMin({p \in 1..Len(str) : MatchesAt(str, p, prefix, least)}),
                    prefix, least) >>
    ELSE <<>>

\* the lines joined by "\n"
RECURSIVE JoinLines(_)
JoinLines(lines) ==
    IF lines = <<>> THEN <<>>
    ELSE IF Len(lines) = 1 THEN lines[1]
    ELSE lines[1] \o <<"\n">> \o JoinLines(Tail(lines))

(***************************************************************************)
(* SkillScanner.extractName                                                *)
(***************************************************************************)
\* lines 130-140: /^#\s+(.+)$/m, then /^name:\s*(.+)$/m, then the fallback
ExtractName(content, fallback) ==
    IF LineMatch(content, <<"#">>, 1) # <<>>
    THEN Trim(LineMatch(content, <<"#">>, 1)[1])
    ELSE IF LineMatch(content, <<"n", "a", "m", "e", ":">>, 0) # <<>>
    THEN Trim(LineMatch(content, <<"n", "a", "m", "e", ":">>, 0)[1])
    ELSE fallback

\* the lines that the documents handed to extractName are made of
DocLines ==
    { <<"-", "-", "-">>,
      <<"n", "a", "m", "e", ":", " ", "F", "o", "o">>,
      <<"n", "a", "m", "e", ":">>,
      <<"#", " ", "B", "a", "r">>,
      <<"#">>,
      <<"#", "#", " ", "U", "s", "e">>,
      <<"t", "e", "x", "t">>,
      <<>> }

DirectoryNames == { <<"f", "o", "o">>, <<"b", "a", "r">> }

ExtractNameInit ==
    /\ \E lines \in SeqsUpTo(DocLines, MaxDocLines) : docText = JoinLines(lines)
    /\ docFallback \in DirectoryNames
    /\ extractedName = <<>>

ExtractNameIdle ==
    /\ docText = <<>>
    /\ docFallback = <<>>
    /\ extractedName = <<>>

\* extractName(content, fallback) is called and returns
ExtractNameCall ==
    /\ extractedName = <<>>
    /\ extractedName' = <<ExtractName(docText, docFallback)>>
    /\ UNCHANGED <<docText, docFallback>>

(***************************************************************************)
(* GapAnalyzer.importSkill and the command importAllMissingSkills          *)
(***************************************************************************)
WorkspaceRoot == <<"workspace">>
GlobalRoot == <<"global">>

\* `currentConfig.targetImportPath || ".agent/skills"`, under the workspace
TargetDir == WorkspaceRoot \o <<".agent", "skills">>

\* `path.dirname(p)` and `path.basename(p)`
Dirname(p) == SubSeq(p, 1, Len(p) - 1)
Basename(p) == p[Len(p)]

\* `path.join(targetDir, skillFolderName)` for the skill's containing directory
ImportTargetPath(skill, targetDir) == Append(targetDir, Basename(Dirname(skill.path)))

\* the option `{ overwrite: false }` of the copy
ImportOverwrite == FALSE

\* vscode.workspace.fs.copy(source, target, { overwrite }): the file system
\* it leaves and the error it throws, "none" when it succeeds
FsCopy(fsys, source, target, overwrite, ioError) ==
    IF ioError THEN [fs |-> fsys, error |-> "Unavailable"]
    ELSE IF source \notin DOMAIN fsys THEN [fs |-> fsys, error |-> "FileNotFound"]
    ELSE IF target \in DOMAIN fsys /\ ~overwrite THEN [fs |-> fsys, error |-> "FileExists"]
    ELSE [fs |-> MapPut(fsys, target, fsys[source]), error |-> "none"]

\* mutant of ImportSkillOutcome: no catch, the error of the copy escapes
ImportSkillRethrows(error) == IF error = "none" THEN "true" ELSE "threw"

\* what importSkill returns: true after the copy, false from the catch block
ImportSkillOutcome(error) == IF error = "none" THEN "true" ELSE "false"

\* `results.filter(Boolean).length`
CountImported(calls) ==
    Cardinality({i \in 1..Len(calls) : calls[i].outcome = "true"})

MissingSkill(name, docPath) ==
    [name |-> name, path |-> docPath, status |-> Missing]

\* the missing skills: two in directories of the global library, one whose
\* document sits directly in the library's root, and one in a directory that
\* is also called foo
MissingUniverse ==
    << MissingSkill("Foo", GlobalRoot \o <<"foo", SKILL_FILE_NAME>>),
       MissingSkill("Bar", GlobalRoot \o <<"bar", SKILL_FILE_NAME>>),
       MissingSkill("Root", GlobalRoot \o <<SKILL_FILE_NAME>>),
       MissingSkill("Foo Two", GlobalRoot \o <<"more", "foo", SKILL_FILE_NAME>>) >>

SourceFs ==
    (GlobalRoot :> "library") @@ (GlobalRoot \o <<"foo">> :> "foo of the library")
        @@ (GlobalRoot \o <<"bar">> :> "bar of the library")
        @@ (GlobalRoot \o <<"more", "foo">> :> "the other foo")

\* destinations that may exist before the import
ExistingTargets == {Append(TargetDir, "foo"), Append(TargetDir, "bar")}

PendingCall == [outcome |-> "pending", targetExisted |-> FALSE, targetBefore |-> "",
                ioError |-> FALSE, sourceExisted |-> FALSE]

ImportInit ==
    /\ \E present \in SUBSET ExistingTargets, gone \in SUBSET {GlobalRoot \o <<"bar">>} :
          fs = [d \in (DOMAIN SourceFs \ gone) \cup present |->
                  IF d \in present THEN "workspace copy" ELSE SourceFs[d]]
    /\ \E keep \in SUBSET (1..Len(MissingUniverse)) :
          importSkills = Restrict(MissingUniverse, keep, 1)
    /\ importCall = <<>>
    /\ importAllPc = "ready"
    /\ totalImported = 0
    /\ importNotices = {}

ImportIdle ==
    /\ fs = <<>>
    /\ importSkills = <<>>
    /\ importCall = <<>>
    /\ importAllPc = "idle"
    /\ totalImported = 0
    /\ importNotices = {}

\* the command runs up to its `await Promise.all(...)`: one importSkill call
\* per missing skill, each suspended in its copy
ImportAllStart ==
    /\ importAllPc = "ready"
    /\ IF importSkills = <<>>
       THEN importAllPc' = "done" /\ UNCHANGED importCall
       ELSE /\ importAllPc' = "awaiting"
            /\ importCall' = [i \in 1..Len(importSkills) |-> PendingCall]
    /\ UNCHANGED <<fs, importSkills, totalImported, importNotices>>

\* the copy of call i completes and importSkill returns; an error that
\* escaped importSkill would reject the command's Promise.all
ImportCopyCompletes(i, ioError) ==
    /\ i \in DOMAIN importCall
    /\ importCall[i].outcome = "pending"
    /\ LET source == Dirname(importSkills[i].path)
           target == ImportTargetPath(importSkills[i], TargetDir)
           copy   == FsCopy(fs, source, target, ImportOverwrite, ioError)
           out    == ImportSkillOutcome(copy.error)
       IN  /\ fs' = copy.fs
           /\ importCall' = [importCall EXCEPT ![i] =
                  [outcome |-> out,
                   targetExisted |-> target \in DOMAIN fs,
                   targetBefore |-> IF target \in DOMAIN fs THEN fs[target] ELSE "",
                   ioError |-> ioError,
                   sourceExisted |-> source \in DOMAIN fs]]
           /\ importNotices' = IF out = "false"
                               THEN importNotices \cup {<<"error", importSkills[i].name>>}
                               ELSE importNotices
           /\ importAllPc' = IF out = "threw" /\ importAllPc = "awaiting"
                             THEN "rejected" ELSE importAllPc
    /\ UNCHANGED <<importSkills, totalImported>>

\* lines 305-312 of the command: every importSkill call has returned
ImportAllFinish ==
    /\ importAllPc = "awaiting"
    /\ \A i \in DOMAIN importCall : importCall[i].outcome \in {"true", "false"}
    /\ IF CountImported(importCall) > 0
       THEN /\ totalImported' = totalImported + CountImported(importCall)
            /\ importNotices' = importNotices
                                   \cup {<<"imported", CountImported(importCall)>>}
       ELSE UNCHANGED <<totalImported, importNotices>>
    /\ importAllPc' = "done"
    /\ UNCHANGED <<fs, importSkills, importCall>>

(***************************************************************************)
(* SkillScanner.scan, scanDirectory and parseSkillFile                     *)
(***************************************************************************)
DEFAULT_SCAN_PATHS ==
    << <<".cursor", "rules">>, <<".cursor", "skills">>, <<".clinerules">>,
       <<".cline_skills">>, <<".claude", "skills">>, <<"skills">>,
       <<".github", "copilot-instructions.md">>, <<".github", "instructions">>,
       <<".continue", "rules">>, <<".continue", "skills">>,
       <<".amazonq", "cli-agents">>, <<".kiro">>, <<".agent", "skills">>,
       <<".agents", "skills">>, <<"_agent", "skills">>, <<"_agents", "skills">> >>

\* the setting open-skills.customScanPaths
CustomPathChoices == { <<>>, << <<"my-skills">> >> }

\* lines 59-64: the default and custom suffixes under the workspace root,
\* then the global root
ResolveScanPaths(custom) ==
    [k \in 1..(Len(DEFAULT_SCAN_PATHS) + Len(custom)) |->
        WorkspaceRoot \o (DEFAULT_SCAN_PATHS \o custom)[k]] \o <<GlobalRoot>>

FileEntry(name) == <<name, "File">>
DirectoryEntry(name) == <<name, "Directory">>

\* The directories of the machine, with what readDirectory lists for them.
ScanDirectories ==
    (WorkspaceRoot \o <<".cursor", "rules">> :>
        << FileEntry("notes.txt"), FileEntry(SKILL_FILE_NAME) >>)
    @@ (WorkspaceRoot \o <<".agent", "skills">> :>
        << DirectoryEntry("foo"), DirectoryEntry("empty") >>)
    @@ (WorkspaceRoot \o <<"my-skills">> :> << DirectoryEntry("baz") >>)
    @@ (GlobalRoot :> << DirectoryEntry("bar") >>)

\* The skill documents of the machine, with their text.
ScanFiles ==
    (WorkspaceRoot \o <<".cursor", "rules", SKILL_FILE_NAME>> :>
        <<"#", " ", "R", "u", "l", "e", "s">>)
    @@ (WorkspaceRoot \o <<".agent", "skills", "foo", SKILL_FILE_NAME>> :>
        <<"n", "a", "m", "e", ":", " ", "F", "o", "o">>)
    @@ (WorkspaceRoot \o <<"my-skills", "baz", SKILL_FILE_NAME>> :>
        <<"#", " ", "B", "a", "z", " ", "T", "w", "o">>)
    @@ (GlobalRoot \o <<"bar", SKILL_FILE_NAME>> :> <<"t", "e", "x", "t">>)

\* the characters of the directory names of the machine
Characters(name) ==
    IF name = "rules" THEN <<"r", "u", "l", "e", "s">>
    ELSE IF name = "foo" THEN <<"f", "o", "o">>
    ELSE IF name = "empty" THEN <<"e", "m", "p", "t", "y">>
    ELSE IF name = "baz" THEN <<"b", "a", "z">>
    ELSE IF name = "bar" THEN <<"b", "a", "r">>
    ELSE <<"g", "l", "o", "b", "a", "l">>

UpperCaseLetters ==
    << "A", "B", "C", "D", "E", "F", "G", "H", "I", "J", "K", "L", "M",
       "N", "O", "P", "Q", "R", "S", "T", "U", "V", "W", "X", "Y", "Z" >>
LowerCaseLetters ==
    << "a", "b", "c", "d", "e", "f", "g", "h", "i", "j", "k", "l", "m",
       "n", "o", "p", "q", "r", "s", "t", "u", "v", "w", "x", "y", "z" >>

ToLowerCase(ch) ==
    IF \E k \in 1..26 : UpperCaseLetters[k] = ch
    THEN LowerCaseLetters[CHOOSE k \in 1..26 : UpperCaseLetters[k] = ch]
    ELSE ch

\* `extractedName.toLowerCase().replace(/\s+/g, "")`
RECURSIVE NormalizeName(_)
NormalizeName(name) ==
    IF name = <<>> THEN <<>>
    ELSE IF IsSpace(name[1]) THEN NormalizeName(Tail(name))
    ELSE <<ToLowerCase(name[1])>> \o NormalizeName(Tail(name))

\* lines 106-119 of parseSkillFile: the record made of a document's text
SkillRecord(filePath, text, skillName) ==
    [name |-> ExtractName(text, skillName),
     normalizedName |-> NormalizeName(ExtractName(text, skillName)),
     path |-> filePath]

DocCall(pc, filePath, skillName, value) ==
    [pc |-> pc, path |-> filePath, skillName |-> skillName, value |-> value]

\* lines 72-88 of scanDirectory: what is started for one entry of the listing
EntryCall(dirPath, entry) ==
    IF entry[2] = "Directory"
    THEN DocCall("reading", dirPath \o <<entry[1], SKILL_FILE_NAME>>,
                 Characters(entry[1]), <<>>)
    ELSE IF entry[1] = SKILL_FILE_NAME /\ entry[2] = "File"
    THEN DocCall("reading", Append(dirPath, entry[1]),
                 Characters(Basename(dirPath)), <<>>)
    ELSE DocCall("skipped", <<>>, <<>>, <<>>)

\* mutant of RootValue: one document that cannot be read empties its root
RootValueAllOrNothing(docs) ==
    IF \E j \in DOMAIN docs : docs[j].pc = "failed" THEN <<>> ELSE NonNull(docs)

\* line 91: `results.filter((s) => s !== null)`
RootValue(docs) == NonNull(docs)

RootCall(pc, docs, value) == [pc |-> pc, docs |-> docs, value |-> value]

\* a scanDirectory call whose documents have all been dealt with returns
RootSettled(call) ==
    IF call.pc = "docs" /\ \A j \in DOMAIN call.docs : call.docs[j].pc # "reading"
    THEN RootCall("fulfilled", call.docs, RootValue(call.docs))
    ELSE call

\* mutant of FlatMapValues: the values are taken from the last root to the first
RECURSIVE FlatMapValuesReversed(_, _)
FlatMapValuesReversed(calls, k) ==
    IF k > Len(calls) THEN <<>>
    ELSE FlatMapValuesReversed(calls, k + 1) \o calls[k].value

\* lines 42-44: `results.flatMap((r) => r.status === "fulfilled" ? r.value : [])`
RECURSIVE FlatMapValues(_, _)
FlatMapValues(calls, k) ==
    IF k > Len(calls) THEN <<>>
    ELSE IF calls[k].pc = "fulfilled"
         THEN calls[k].value \o FlatMapValues(calls, k + 1)
         ELSE FlatMapValues(calls, k + 1)

ScannerInit ==
    /\ customPaths \in CustomPathChoices
    /\ scanPaths = <<>>
    /\ rootCall = <<>>
    /\ scanAllPc = "ready"
    /\ scanSkills = <<>>
    /\ rootsOutOfOrder = FALSE

ScannerIdle ==
    /\ customPaths = <<>>
    /\ scanPaths = <<>>
    /\ rootCall = <<>>
    /\ scanAllPc = "idle"
    /\ scanSkills = <<>>
    /\ rootsOutOfOrder = FALSE

\* lines 36-40: scan is called; every root's readDirectory is requested
ScanStart ==
    /\ scanAllPc = "ready"
    /\ scanPaths' = ResolveScanPaths(customPaths)
    /\ rootCall' = [k \in 1..Len(ResolveScanPaths(customPaths)) |->
                      RootCall("listing", <<>>, <<>>)]
    /\ scanAllPc' = "running"
    /\ UNCHANGED <<customPaths, scanSkills, rootsOutOfOrder>>

RootCallMoves(i, call) ==
    /\ rootCall' = [rootCall EXCEPT ![i] = call]
    /\ rootsOutOfOrder' =
          (rootsOutOfOrder \/ OutOfOrder(rootCall, [rootCall EXCEPT ![i] = call]))
    /\ UNCHANGED <<customPaths, scanPaths, scanAllPc, scanSkills>>

\* lines 68-90: the listing of root i arrives and its documents are requested
RootReadOk(i) ==
    /\ i \in DOMAIN rootCall
    /\ rootCall[i].pc = "listing"
    /\ scanPaths[i] \in DOMAIN ScanDirectories
    /\ RootCallMoves(i, RootSettled(RootCall("docs",
          [j \in 1..Len(ScanDirectories[scanPaths[i]]) |->
              EntryCall(scanPaths[i], ScanDirectories[scanPaths[i]][j])],
          <<>>)))

\* Reads of roots that do not exist all fail alike; they are taken in the
\* order of the list among themselves, and in any order relative to the
\* reads of the roots that exist.
AbsentRootsBefore(i) ==
    \A k \in 1..(i - 1) :
        scanPaths[k] \notin DOMAIN ScanDirectories => rootCall[k].pc = "fulfilled"

\* lines 92-94: readDirectory of root i throws (the root does not exist, or
\* it cannot be read) and scanDirectory returns []
RootReadFails(i) ==
    /\ i \in DOMAIN rootCall
    /\ rootCall[i].pc = "listing"
    /\ scanPaths[i] \notin DOMAIN ScanDirectories => AbsentRootsBefore(i)
    /\ RootCallMoves(i, RootCall("fulfilled", <<>>, <<>>))

\* lines 103-119: the document j of root i has been read
DocReadOk(i, j) ==
    /\ i \in DOMAIN rootCall
    /\ j \in DOMAIN rootCall[i].docs
    /\ rootCall[i].docs[j].pc = "reading"
    /\ rootCall[i].docs[j].path \in DOMAIN ScanFiles
    /\ RootCallMoves(i, RootSettled([rootCall[i] EXCEPT
          !.docs[j] = DocCall("read", @.path, @.skillName,
                              <<SkillRecord(@.path, ScanFiles[@.path], @.skillName)>>)]))

\* lines 120-122: readFile throws (no such document, or it cannot be read)
\* and parseSkillFile returns null
DocReadFails(i, j) ==
    /\ i \in DOMAIN rootCall
    /\ j \in DOMAIN rootCall[i].docs
    /\ rootCall[i].docs[j].pc = "reading"
    /\ RootCallMoves(i, RootSettled([rootCall[i] EXCEPT
          !.docs[j] = DocCall("failed", @.path, @.skillName, <<>>)]))

\* lines 42-52: allSettled has resolved; the result is built and returned
ScanSettled ==
    /\ scanAllPc = "running"
    /\ \A i \in DOMAIN rootCall : HasSettled(rootCall[i])
    /\ scanSkills' = FlatMapValues(rootCall, 1)
    /\ scanAllPc' = "returned"
    /\ UNCHANGED <<customPaths, scanPaths, rootCall, rootsOutOfOrder>>

(***************************************************************************)
(* GitHubSkillsClient: fetchRepoTree, fetchRawContent, fetchWithAuth,      *)
(* checkRateLimit and clearCache, whoever calls them                       *)
(***************************************************************************)
TokenChoices == {"", "ghp_secret"}

LOW_QUOTA == 10

\* the header x-ratelimit-remaining of a response: absent, or a number
RemainingChoices == { <<>>, <<"9">>, <<"10">> }

ParseInt(digits) == IF digits = "9" THEN 9 ELSE 10

\* lines 340-342: the Authorization header, if any
AuthorizationHeader(token) == IF token # "" THEN <<"Bearer", token>> ELSE <<>>

\* mutant of RawRequestAuthorization: raw requests go through fetchWithAuth
RawRequestWithAuth(token) == AuthorizationHeader(token)

\* line 204: `fetch(url)`, with no headers
RawRequestAuthorization(token) == <<>>

\* line 351: `remaining && parseInt(remaining) < 10`
IsQuotaLow(remaining) == remaining # <<>> /\ ParseInt(remaining[1]) < LOW_QUOTA

\* what the fetches of the model ask for: two tree listings, and a raw file
\* of each kind (a skill document, its metadata.json, and a file of a
\* download, which is empty)
ClientTrees == { <<"anthropics", "skills", "main">>, <<"openai", "skills", "main">> }

ClientFiles ==
    { <<"anthropics", "skills", <<"skills", "alpha", "SKILL.md">>, "main">>,
      <<"anthropics", "skills", <<"skills", "alpha", "examples", "metadata.json">>,
        "main">>,
      <<"anthropics", "skills", <<"skills", "alpha", "f03">>, "main">> }

ClientFileContent(file) ==
    IF RemoteFile(file[1], file[2], file[3]) # <<>>
    THEN RemoteFile(file[1], file[2], file[3])[1]
    ELSE RemoteContent(file[3])

ClientCall(kind, key, target, status, authorization, afterClear) ==
    [kind |-> kind, key |-> key, target |-> target, status |-> status,
     authorization |-> authorization, afterClear |-> afterClear]

\* the calls whose request is in flight
PendingCalls(calls) == {n \in DOMAIN calls : calls[n].status = "pending"}

\* setCache(cacheKey, ...) by the continuation of call n: the entry of the key
\* now comes from the request of call n
StoredBy(stale, n, key, preClear) ==
    IF n \in preClear THEN stale \cup {key} ELSE stale \ {key}

ClientInit ==
    /\ githubToken \in TokenChoices
    /\ clientCalls = <<>>
    /\ rateLimitWarnings = 0
    /\ clearedKeys = {}
    /\ preClearCalls = {}
    /\ staleData = {}

ClientIdle ==
    /\ githubToken = ""
    /\ clientCalls = <<>>
    /\ rateLimitWarnings = 0
    /\ clearedKeys = {}
    /\ preClearCalls = {}
    /\ staleData = {}

ClientCacheInit ==
    /\ now = 0
    /\ cacheTimeout = 1
    /\ cache = EmptyCache
    /\ lookup = <<>>

\* lines 116-123 of fetchRepoTree: the lookup, and on a miss the request
\* sent by fetchWithAuth
FetchRepoTreeCall(tree) ==
    /\ Len(clientCalls) < MaxClientCalls
    /\ LET key   == TreeKey(tree[1], tree[2], tree[3])
           found == GetFromCache(cache, key, now, TimeoutMs(cacheTimeout))
       IN  /\ cache' = found.cache
           /\ clientCalls' = Append(clientCalls,
                 IF found.value # <<>>
                 THEN ClientCall("tree", key, tree, "hit", <<>>, key \in clearedKeys)
                 ELSE ClientCall("tree", key, tree, "pending",
                                 AuthorizationHeader(githubToken), key \in clearedKeys))
    /\ UNCHANGED <<githubToken, rateLimitWarnings, clearedKeys, preClearCalls, staleData,
                   now, cacheTimeout, lookup>>

\* lines 125-136 of fetchRepoTree: the response is ok
ClientTreeOk(n, remaining) ==
    /\ n \in DOMAIN clientCalls
    /\ clientCalls[n].kind = "tree"
    /\ clientCalls[n].status = "pending"
    /\ rateLimitWarnings' = IF IsQuotaLow(remaining) THEN rateLimitWarnings + 1
                            ELSE rateLimitWarnings
    /\ cache' = SetCache(cache, clientCalls[n].key,
                         RemoteTree(clientCalls[n].target[1], clientCalls[n].target[2]),
                         now)
    /\ clearedKeys' = clearedKeys \ {clientCalls[n].key}
    /\ staleData' = StoredBy(staleData, n, clientCalls[n].key, preClearCalls)
    /\ preClearCalls' = preClearCalls \ {n}
    /\ clientCalls' = [clientCalls EXCEPT ![n].status = "ok"]
    /\ UNCHANGED <<githubToken, now, cacheTimeout, lookup>>

\* lines 123-130 of fetchRepoTree: the request fails or the response is not ok
ClientTreeFail(n) ==
    /\ n \in DOMAIN clientCalls
    /\ clientCalls[n].kind = "tree"
    /\ clientCalls[n].status = "pending"
    /\ clientCalls' = [clientCalls EXCEPT ![n].status = "failed"]
    /\ preClearCalls' = preClearCalls \ {n}
    /\ UNCHANGED <<githubToken, rateLimitWarnings, clearedKeys, staleData, cacheVars>>

\* lines 197-204 of fetchRawContent: the lookup, and on a miss the request
FetchRawContentCall(file) ==
    /\ Len(clientCalls) < MaxClientCalls
    /\ LET key    == RawKey(file[1], file[2], file[3], file[4])
           issued == RawCallIssued(cache, key, now, TimeoutMs(cacheTimeout))
       IN  /\ cache' = issued.cache
           /\ clientCalls' = Append(clientCalls,
                 IF issued.call.status = "hit"
                 THEN ClientCall("raw", key, file, "hit", <<>>, key \in clearedKeys)
                 ELSE ClientCall("raw", key, file, "pending",
                                 RawRequestAuthorization(githubToken),
                                 key \in clearedKeys))
    /\ UNCHANGED <<githubToken, rateLimitWarnings, clearedKeys, preClearCalls, staleData,
                   now, cacheTimeout, lookup>>

\* lines 206-212 of fetchRawContent: the response is ok
ClientRawOk(n) ==
    /\ n \in DOMAIN clientCalls
    /\ clientCalls[n].kind = "raw"
    /\ clientCalls[n].status = "pending"
    /\ cache' = SetCache(cache, clientCalls[n].key,
                         ClientFileContent(clientCalls[n].target), now)
    /\ clearedKeys' = clearedKeys \ {clientCalls[n].key}
    /\ staleData' = StoredBy(staleData, n, clientCalls[n].key, preClearCalls)
    /\ preClearCalls' = preClearCalls \ {n}
    /\ clientCalls' = [clientCalls EXCEPT ![n].status = "ok"]
    /\ UNCHANGED <<githubToken, rateLimitWarnings, now, cacheTimeout, lookup>>

\* lines 204-208 of fetchRawContent: the request fails or the response is not ok
ClientRawFail(n) ==
    /\ n \in DOMAIN clientCalls
    /\ clientCalls[n].kind = "raw"
    /\ clientCalls[n].status = "pending"
    /\ clientCalls' = [clientCalls EXCEPT ![n].status = "failed"]
    /\ preClearCalls' = preClearCalls \ {n}
    /\ UNCHANGED <<githubToken, rateLimitWarnings, clearedKeys, staleData, cacheVars>>

\* lines 380-382: clearCache is called
ClientClearCache ==
    /\ cache # EmptyCache \/ PendingCalls(clientCalls) \ preClearCalls # {}
    /\ cache' = ClearedCache(cache)
    /\ clearedKeys' = clearedKeys \cup DOMAIN cache
    /\ preClearCalls' = preClearCalls \cup PendingCalls(clientCalls)
    /\ staleData' = {}
    /\ UNCHANGED <<githubToken, clientCalls, rateLimitWarnings, now, cacheTimeout, lookup>>

(***************************************************************************)
(* The command open-skills.installMarketplaceSkill and fetchSkillFiles     *)
(***************************************************************************)
\* the tree of the repository of a skill of n files
InstallTree(n) ==
    << Blob(<<"README.md">>), TreeDir(PoolSkillPath) >>
        \o [k \in 1..n |-> Blob(Append(PoolSkillPath, FileNames[k]))]
        \o << Blob(<<"skills", "beta", "SKILL.md">>) >>

InstallSkillOf(n) ==
    [name |-> "Alpha",
     source |-> Repository(PoolOwner, PoolRepo, <<"skills">>, PoolBranch, FALSE),
     skillPath |-> PoolSkillPath,
     files |-> n]

\* lines 227-237 of fetchSkillFiles: the blobs under the skill's path, with
\* their paths relative to it
RECURSIVE SkillFilesOf(_, _, _)
SkillFilesOf(tree, skillPath, k) ==
    IF k > Len(tree) THEN <<>>
    ELSE IF tree[k].type = "blob"
            /\ (skillPath = <<>> \/ StartsWithPrefix(tree[k].path, skillPath))
         THEN << [remotePath |-> tree[k].path,
                  relativePath |-> SubSeq(tree[k].path, Len(skillPath) + 1,
                                          Len(tree[k].path))] >>
                 \o SkillFilesOf(tree, skillPath, k + 1)
         ELSE SkillFilesOf(tree, skillPath, k + 1)

\* `path.join(workspaceRoot, targetPath, skill.name)`
InstallSkillDir(skill) == Append(TargetDir, skill.name)

InstallInit ==
    /\ \E n \in 0..MaxFiles : installSkill = InstallSkillOf(n)
    /\ installPc = "ready"
    /\ installOps = <<>>
    /\ totalInstalled = 0
    /\ installNotices = {}

InstallIdle ==
    /\ installSkill = <<>>
    /\ installPc = "idle"
    /\ installOps = <<>>
    /\ totalInstalled = 0
    /\ installNotices = {}

\* the download has not been called yet
PoolNotCalled ==
    /\ poolFiles = <<>>
    /\ poolI = 0
    /\ poolPc = "idle"
    /\ poolFetch = <<>>
    /\ poolResults = <<>>
    /\ poolLog = <<>>

\* the cache an installation may find: empty, or holding the repository's
\* tree since the catalog was loaded
InstallCacheInit ==
    /\ now = ClockStep
    /\ cacheTimeout = 1
    /\ cache \in { EmptyCache,
                    SetCache(EmptyCache, TreeKey(PoolOwner, PoolRepo, PoolBranch),
                             InstallTree(installSkill.files), 0) }
    /\ lookup = <<>>

\* fetchSkillFiles has the tree: it calls fetchFilesWithPool
InstallHasTree(tree) ==
    /\ poolFiles' = SkillFilesOf(tree, installSkill.skillPath, 1)
    /\ poolPc' = "ready"
    /\ installPc' = "files"
    /\ UNCHANGED <<poolI, poolFetch, poolResults, poolLog>>

\* lines 356-368: the command is run; fetchSkillFiles asks for the tree
InstallStart ==
    /\ installPc = "ready"
    /\ LET found == GetFromCache(cache, TreeKey(PoolOwner, PoolRepo, PoolBranch), now,
                                 TimeoutMs(cacheTimeout))
       IN  /\ cache' = found.cache
           /\ IF found.value # <<>>
              THEN InstallHasTree(found.value[1])
              ELSE installPc' = "tree" /\ UNCHANGED poolVars
    /\ UNCHANGED <<installSkill, installOps, totalInstalled, installNotices,
                   now, cacheTimeout, lookup>>

\* the tree listing arrives
InstallTreeOk ==
    /\ installPc = "tree"
    /\ cache' = SetCache(cache, TreeKey(PoolOwner, PoolRepo, PoolBranch),
                         InstallTree(installSkill.files), now)
    /\ InstallHasTree(InstallTree(installSkill.files))
    /\ UNCHANGED <<installSkill, installOps, totalInstalled, installNotices,
                   now, cacheTimeout, lookup>>

\* lines 393-396: the catch block
InstallCatch ==
    /\ installPc' = "failed"
    /\ installNotices' = installNotices \cup {<<"error", installSkill.name>>}
    /\ UNCHANGED <<installSkill, installOps, totalInstalled>>

\* the tree listing fails: fetchSkillFiles rejects
InstallTreeFail ==
    /\ installPc = "tree"
    /\ InstallCatch
    /\ UNCHANGED <<poolVars, cacheVars>>

\* fetchFilesWithPool has rejected: fetchSkillFiles rejects
InstallFilesRejected ==
    /\ installPc = "files"
    /\ poolPc = "rejected"
    /\ InstallCatch
    /\ UNCHANGED <<poolVars, cacheVars>>

\* mutant of FilesAwaited: the handler goes on once the download has begun
FilesRequested(pc) == pc \in {"batch", "pause", "resolved"}

\* `const files = await githubClient.fetchSkillFiles(skill)`: the handler
\* goes on when the download has resolved
FilesAwaited(pc) == pc = "resolved"

\* lines 370-374: the files are there; the skill's directory is created
InstallFilesFetched ==
    /\ installPc = "files"
    /\ FilesAwaited(poolPc)
    /\ installOps' = Append(installOps, <<"createDirectory", InstallSkillDir(installSkill)>>)
    /\ installPc' = "writing"
    /\ UNCHANGED <<installSkill, totalInstalled, installNotices, poolVars, cacheVars>>

\* how many files have been written
FilesWritten(ops) == (Len(ops) - 1) \div 2

\* lines 376-382: the next file is written, after its directory is created
InstallWriteFile ==
    /\ installPc = "writing"
    /\ FilesWritten(installOps) < Len(poolResults)
    /\ LET file == poolResults[FilesWritten(installOps) + 1]
           uri  == InstallSkillDir(installSkill) \o file.path
       IN  installOps' = installOps \o << <<"createDirectory", Dirname(uri)>>,
                                          <<"writeFile", uri, file.content>> >>
    /\ UNCHANGED <<installSkill, installPc, totalInstalled, installNotices,
                   poolVars, cacheVars>>

\* a createDirectory or writeFile throws
InstallWriteFails ==
    /\ installPc = "writing"
    /\ FilesWritten(installOps) < Len(poolResults)
    /\ InstallCatch
    /\ UNCHANGED <<poolVars, cacheVars>>

\* lines 384-388: every file is written; the count, the message, the rescan
InstallCounted ==
    /\ installPc = "writing"
    /\ FilesWritten(installOps) = Len(poolResults)
    /\ totalInstalled' = totalInstalled + 1
    /\ installNotices' = installNotices \cup {<<"installed", installSkill.name>>}
    /\ installPc' = "rescan"
    /\ UNCHANGED <<installSkill, installOps, poolVars, cacheVars>>

\* lines 388-391: performScan has returned; the installed set is refreshed
InstallRescanned ==
    /\ installPc = "rescan"
    /\ installPc' = "done"
    /\ UNCHANGED <<installSkill, installOps, totalInstalled, installNotices,
                   poolVars, cacheVars>>

(***************************************************************************)
(* GitHubSkillsClient.parseSkillMd, parseYamlFrontmatter and               *)
(* applyMetadataField                                                      *)
(***************************************************************************)
Digits == {"0", "1", "2", "3", "4", "5", "6", "7", "8", "9"}

\* the class \w of a regular expression
IsWordCharacter(ch) ==
    \/ \E k \in 1..26 : ch = UpperCaseLetters[k] \/ ch = LowerCaseLetters[k]
    \/ ch \in Digits
    \/ ch = "_"

Fence == <<"-", "-", "-">>

\* how many characters `\r?\n` takes at position p; 0 when it does not match
NewlineAt(str, p) ==
    IF p <= Len(str) /\ str[p] = "\n" THEN 1
    ELSE IF p + 1 <= Len(str) /\ str[p] = "\r" /\ str[p + 1] = "\n" THEN 2
    ELSE 0

\* `^---\r?\n` (no flag m: ^ is the start of the document)
OpensAtStart(str) == HasPrefixAt(str, 1, Fence) /\ NewlineAt(str, Len(Fence) + 1) > 0

\* the position where group 1 starts
BlockStart(str) == Len(Fence) + 1 + NewlineAt(str, Len(Fence) + 1)

\* `\r?\n---\r?\n` matches at position e
ClosesAt(str, e) ==
    /\ NewlineAt(str, e) > 0
    /\ HasPrefixAt(str, e + NewlineAt(str, e), Fence)
    /\ NewlineAt(str, e + NewlineAt(str, e) + Len(Fence)) > 0

\* the position after `\r?\n---\r?\n` matched at e: where group 2 starts
BodyStart(str, e) ==
    e + NewlineAt(str, e) + Len(Fence) + NewlineAt(str, e + NewlineAt(str, e) + Len(Fence))

\* mutant of BlockEnd: group 1 taken greedily
BlockEndGreedy(str) ==
    SetMax({e \in BlockStart(str)..Len(str) : ClosesAt(str, e)})

\* `([\s\S]*?)` is lazy: group 1 ends at the first position where the rest
\* of the expression matches (`([\s\S]*)$` after the fence always does)
BlockEnd(str) ==
    SetMin({e \in BlockStart(str)..Len(str) : ClosesAt(str, e)})

\* content.match(/^---\r?\n([\s\S]*?)\r?\n---\r?\n([\s\S]*)$/): <<>> for null,
\* else the groups 1 and 2
FrontmatterMatch(content) ==
    IF OpensAtStart(content)
       /\ \E e \in BlockStart(content)..Len(content) : ClosesAt(content, e)
    THEN << [yaml |-> SubSeq(content, BlockStart(content), BlockEnd(content) - 1),
             body |-> SubSeq(content, BodyStart(content, BlockEnd(content)),
                             Len(content))] >>
    ELSE <<>>

IndexOf(str, ch) == SetMin({p \in 1..Len(str) : str[p] = ch})

\* String.prototype.split with a one-character separator
RECURSIVE Split(_, _)
Split(str, sep) ==
    IF \E p \in 1..Len(str) : str[p] = sep
    THEN <<SubSeq(str, 1, IndexOf(str, sep) - 1)>>
         \o Split(SubSeq(str, IndexOf(str, sep) + 1, Len(str)), sep)
    ELSE <<str>>

\* `\w+(?:-\w+)*`
IsYamlKey(key) ==
    /\ key # <<>>
    /\ \A p \in 1..Len(key) :
          \/ IsWordCharacter(key[p])
          \/ /\ key[p] = "-"
             /\ 1 < p /\ p < Len(key)
             /\ IsWordCharacter(key[p - 1])
             /\ IsWordCharacter(key[p + 1])

\* line.match(/^(\w+(?:-\w+)*):\s*(.*)$/): <<>> for null, else the groups 1
\* and 2.  The key ends at the first colon; `.` matches no line terminator
\* and $ is the end of the line, so the rest after the whitespace run must
\* hold none (the run giving characters back only adds to the rest).
KeyMatch(line) ==
    IF /\ \E p \in 1..Len(line) : line[p] = ":"
       /\ IsYamlKey(SubSeq(line, 1, IndexOf(line, ":") - 1))
       /\ \A p \in (IndexOf(line, ":") + 1 + SpaceRun(line, IndexOf(line, ":") + 1))
                     ..Len(line) : ~IsLineTerminator(line[p])
    THEN << [key   |-> SubSeq(line, 1, IndexOf(line, ":") - 1),
             value |-> SubSeq(line, IndexOf(line, ":") + 1
                                     + SpaceRun(line, IndexOf(line, ":") + 1),
                              Len(line))] >>
    ELSE <<>>

METADATA_KEYS ==
    << [key |-> <<"n", "a", "m", "e">>, field |-> "name"],
       [key |-> <<"d", "e", "s", "c", "r", "i", "p", "t", "i", "o", "n">>,
        field |-> "description"],
       [key |-> <<"l", "i", "c", "e", "n", "s", "e">>, field |-> "license"],
       [key |-> <<"c", "o", "m", "p", "a", "t", "i", "b", "i", "l", "i", "t", "y">>,
        field |-> "compatibility"],
       [key |-> <<"a", "l", "l", "o", "w", "e", "d", "-", "t", "o", "o", "l", "s">>,
        field |-> "allowedTools"] >>

IsMetadataKey(key) == \E k \in DOMAIN METADATA_KEYS : METADATA_KEYS[k].key = key

\* mapping.field of METADATA_KEYS.find((m) => m.key === key)
FieldOf(key) ==
    METADATA_KEYS[SetMin({k \in DOMAIN METADATA_KEYS : METADATA_KEYS[k].key = key})].field

\* metadata[field] = value
WithField(metadata, field, value) ==
    [f \in DOMAIN metadata \cup {field} |-> IF f = field THEN value ELSE metadata[f]]

\* mutant of ApplyMetadataField: a key outside METADATA_KEYS is written too
ApplyAnyField(metadata, key, value) ==
    IF IsMetadataKey(key) THEN WithField(metadata, FieldOf(key), value)
    ELSE WithField(metadata, "name", value)

ApplyMetadataField(metadata, key, value) ==
    IF IsMetadataKey(key) THEN WithField(metadata, FieldOf(key), value)
    ELSE metadata

\* `if (currentKey && multilineValue) applyMetadataField(.., multilineValue.trim())`
Flushed(metadata, currentKey, multilineValue) ==
    IF currentKey # <<>> /\ multilineValue # <<>>
    THEN ApplyMetadataField(metadata, currentKey, Trim(multilineValue))
    ELSE metadata

\* line.startsWith("  ")
IsIndented(line) == HasPrefixAt(line, 1, <<" ", " ">>)

\* the loop of parseYamlFrontmatter over the lines that are left, and the
\* statement after it
RECURSIVE ParseLines(_, _, _, _)
ParseLines(lines, metadata, currentKey, multilineValue) ==
    IF lines = <<>>
    THEN Flushed(metadata, currentKey, multilineValue)
    ELSE IF KeyMatch(lines[1]) # <<>>
    THEN IF Trim(KeyMatch(lines[1])[1].value) # <<>>
         THEN ParseLines(Tail(lines),
                         ApplyMetadataField(Flushed(metadata, currentKey, multilineValue),
                                            KeyMatch(lines[1])[1].key,
                                            Trim(KeyMatch(lines[1])[1].value)),
                         <<>>, <<>>)
         ELSE ParseLines(Tail(lines), Flushed(metadata, currentKey, multilineValue),
                         KeyMatch(lines[1])[1].key, <<>>)
    ELSE IF currentKey # <<>> /\ IsIndented(lines[1])
    THEN ParseLines(Tail(lines), metadata, currentKey,
                    multilineValue \o Trim(lines[1]) \o <<" ">>)
    ELSE ParseLines(Tail(lines), metadata, currentKey, multilineValue)

EmptyMetadata == [name |-> <<>>, description |-> <<>>]

ParseYamlFrontmatter(yaml) ==
    ParseLines(Split(yaml, "\n"), EmptyMetadata, <<>>, <<>>)

ParseSkillMd(content) ==
    IF FrontmatterMatch(content) = <<>>
    THEN [metadata |-> EmptyMetadata, body |-> content]
    ELSE [metadata |-> ParseYamlFrontmatter(FrontmatterMatch(content)[1].yaml),
          body     |-> FrontmatterMatch(content)[1].body]

\* The documents handed to parseSkillMd.  A composed document is
\* "---\nname: X\ndescription: Y\n---\nBODY"; a block document has a
\* front-matter block of free lines; a plain document is free lines only.
NameChoices ==
    { <<>>,
      <<"F", "o", "o">>,
      <<" ", "F", "o", "o">>,
      <<"F", "o", "o", " ">>,
      <<"a", ":", " ", "b">>,
      <<"m", "y", " ", "s", "k", "i", "l", "l">>,
      <<"n", "o", "t", "\n", "F", "o", "o">>,
      <<"F", "o", "o", "\r">> }

DescriptionChoices ==
    { <<>>,
      <<"D", "o", "e", "s", " ", "x">>,
      <<"D", "o", "e", "s", " ", "x", " ">>,
      <<" ">>,
      <<"o", "n", "e", "\n", " ", " ", "t", "w", "o">> }

BodyChoices ==
    { <<>>,
      <<"#", " ", "B", "a", "r", "\n", "t", "e", "x", "t", "\n">>,
      <<"a", "\n", "-", "-", "-", "\n", "b", "\n">>,
      <<" ", " ", "n", "a", "m", "e", ":", " ", "Z">> }

YamlLines ==
    { <<"d", "e", "s", "c", "r", "i", "p", "t", "i", "o", "n", ":">>,
      <<" ", " ", "l", "i", "n", "e", " ", "o", "n", "e">>,
      <<" ", " ", "l", "i", "n", "e", " ", "t", "w", "o">>,
      <<" ", "o", "n", "e">>,
      <<"n", "a", "m", "e", ":", " ", "F", "o", "o">>,
      <<"a", "u", "t", "h", "o", "r", ":", " ", "m", "e">>,
      <<"a", "u", "t", "h", "o", "r", ":">>,
      <<"t", "e", "x", "t">>,
      <<" ", " ", " ">>,
      <<"a", "l", "l", "o", "w", "e", "d", "-", "t", "o", "o", "l", "s", ":", " ", "R", "e", "a", "d">>,
      <<"l", "i", "c", "e", "n", "s", "e", ":">> }

PlainLines ==
    { <<"-", "-", "-">>,
      <<"n", "a", "m", "e", ":", " ", "F", "o", "o">>,
      <<"#", " ", "B", "a", "r">>,
      <<"t", "e", "x", "t">>,
      <<>> }

ComposedOrigins ==
    { [kind |-> "composed", name |-> x, description |-> y, body |-> b, lines |-> <<>>] :
        x \in NameChoices, y \in DescriptionChoices, b \in BodyChoices }

BlockOrigins ==
    { [kind |-> "block", name |-> <<>>, description |-> <<>>,
       body |-> <<"t", "e", "x", "t", "\n">>, lines |-> ls] :
        ls \in SeqsUpTo(YamlLines, MaxYamlLines) \ {<<>>} }

PlainOrigins ==
    { [kind |-> "plain", name |-> <<>>, description |-> <<>>, body |-> <<>>,
       lines |-> ls] : ls \in SeqsUpTo(PlainLines, MaxYamlLines) }

ContentOf(origin) ==
    IF origin.kind = "composed"
    THEN Fence \o <<"\n">> \o <<"n", "a", "m", "e", ":", " ">> \o origin.name
         \o <<"\n">> \o <<"d", "e", "s", "c", "r", "i", "p", "t", "i", "o", "n", ":", " ">>
         \o origin.description
         \o <<"\n">> \o Fence \o <<"\n">> \o origin.body
    ELSE IF origin.kind = "block"
    THEN Fence \o <<"\n">> \o JoinLines(origin.lines)
         \o <<"\n">> \o Fence \o <<"\n">> \o origin.body
    ELSE JoinLines(origin.lines)

ParserInit ==
    /\ mdOrigin \in ComposedOrigins \cup BlockOrigins \cup PlainOrigins
    /\ mdContent = ContentOf(mdOrigin)
    /\ mdParsed = <<>>

ParserIdle ==
    /\ mdOrigin = <<>>
    /\ mdContent = <<>>
    /\ mdParsed = <<>>

\* parseSkillMd(content) is called and returns
ParseSkillMdCall ==
    /\ mdParsed = <<>>
    /\ mdParsed' = <<ParseSkillMd(mdContent)>>
    /\ UNCHANGED <<mdOrigin, mdContent>>

(***************************************************************************)
(* extension.ts: performScan, doScan, debouncedScan and the command        *)
(* handlers that await performScan after a mutation                        *)
(***************************************************************************)
\* A doScan pass that is executing: "scanning" while skillScanner.scan() is
\* awaited, "saving" while saveAnalytics is awaited.  startedAt is the
\* file-system version when it began; awaiter is the handler whose
\* performScan call runs it, 0 for none; a pass that has ended leaves the
\* list.
ScanPass(trigger, startedAt, awaiter) ==
    [trigger |-> trigger, startedAt |-> startedAt, pc |-> "scanning",
     awaiter |-> awaiter]

\* the list without its element n
Without(seq, n) == SubSeq(seq, 1, n - 1) \o SubSeq(seq, n + 1, Len(seq))

\* mutant of MustQueue: performScan never takes the early return
NeverQueues(scanning) == FALSE

\* line 95: `if (isScanning)`
MustQueue(scanning) == scanning

\* performScan(): lines 94-101, up to `await doScan()` or the early return
PerformScan(scanning, queued, passes, version, trigger, awaiter) ==
    IF MustQueue(scanning)
    THEN [isScanning |-> scanning, scanQueued |-> TRUE, passes |-> passes,
          started |-> FALSE]
    ELSE [isScanning |-> TRUE, scanQueued |-> queued,
          passes |-> Append(passes, ScanPass(trigger, version, awaiter)),
          started |-> TRUE]

\* mutant of FollowUp: the queued request is forgotten
NoFollowUp(queued) == FALSE

\* line 104: `if (scanQueued)`
FollowUp(queued) == queued

\* lines 102-108: the finally block of performScan
Finally(queued, passes, version) ==
    IF FollowUp(queued)
    THEN PerformScan(FALSE, FALSE, passes, version, "queued", 0)
    ELSE [isScanning |-> FALSE, scanQueued |-> queued, passes |-> passes,
          started |-> FALSE]

PerformScanInit ==
    /\ isScanning = FALSE
    /\ scanQueued = FALSE
    /\ debounceArmed = FALSE
    /\ scanPasses = <<>>
    /\ lastScanStart = -1
    /\ fsVersion = 0
    /\ skillsVersion = 0
    /\ handlers = <<>>
    /\ scanRequests = 0

PerformScanIdle ==
    /\ isScanning = FALSE
    /\ scanQueued = FALSE
    /\ debounceArmed = FALSE
    /\ scanPasses = <<>>
    /\ lastScanStart = -1
    /\ fsVersion = 0
    /\ skillsVersion = 0
    /\ handlers = <<>>
    /\ scanRequests = 0

\* the flags and passes after a performScan call
PerformScanCalled(called) ==
    /\ isScanning' = called.isScanning
    /\ scanQueued' = called.scanQueued
    /\ scanPasses' = called.passes

\* the command open-skills.rescan, or the startup scan of activate (line
\* 543): performScan is called and awaited, and nothing follows the await
DirectScan ==
    /\ scanRequests < MaxScanRequests
    /\ scanRequests' = scanRequests + 1
    /\ PerformScanCalled(PerformScan(isScanning, scanQueued, scanPasses, fsVersion,
                                     "direct", 0))
    /\ UNCHANGED <<lastScanStart, debounceArmed, fsVersion, skillsVersion, handlers>>

\* debouncedScan: a watcher event sets the timer (an event that finds the
\* timer set clears and sets it again, which changes nothing here)
WatcherEvent ==
    /\ ~debounceArmed
    /\ scanRequests < MaxScanRequests
    /\ scanRequests' = scanRequests + 1
    /\ debounceArmed' = TRUE
    /\ UNCHANGED <<lastScanStart, isScanning, scanQueued, scanPasses, fsVersion, skillsVersion, handlers>>

\* the timer of debouncedScan fires: setTimeout calls performScan
TimerFires ==
    /\ debounceArmed
    /\ debounceArmed' = FALSE
    /\ PerformScanCalled(PerformScan(isScanning, scanQueued, scanPasses, fsVersion,
                                     "watcher", 0))
    /\ UNCHANGED <<lastScanStart, fsVersion, skillsVersion, handlers, scanRequests>>

\* a handler has imported, deleted or installed a skill and awaits
\* saveAnalytics (lines 172-176, 181-185, 306-310, 336-341, 384-387)
HandlerMutates ==
    /\ Len(handlers) < MaxMutations
    /\ fsVersion' = fsVersion + 1
    /\ handlers' = Append(handlers, [mutation |-> fsVersion + 1, pc |-> "saving",
                                     seen |-> 0, scanned |-> -1])
    /\ UNCHANGED <<lastScanStart, isScanning, scanQueued, debounceArmed, scanPasses, skillsVersion,
                   scanRequests>>

\* `await performScan()` of handler h: either a pass starts, which the
\* handler awaits, or performScan returns at once and so does the await
HandlerAwaitsScan(h) ==
    /\ h \in DOMAIN handlers
    /\ handlers[h].pc = "saving"
    /\ PerformScanCalled(PerformScan(isScanning, scanQueued, scanPasses, fsVersion,
                                     "handler", h))
    /\ handlers' =
          [handlers EXCEPT ![h] =
              IF PerformScan(isScanning, scanQueued, scanPasses, fsVersion,
                             "handler", h).started
              THEN [@ EXCEPT !.pc = "awaiting"]
              ELSE [@ EXCEPT !.pc = "returned", !.seen = skillsVersion,
                               !.scanned = lastScanStart]]
    /\ UNCHANGED <<lastScanStart, debounceArmed, fsVersion, skillsVersion, scanRequests>>

\* the handler that awaits the pass resumes, with `outcome`: seen is the
\* version that the list skills reflects then, scanned the latest start of a
\* pass that has completed by then
Resumed(hs, pass, outcome, version, scanStart) ==
    IF pass.awaiter = 0 THEN hs
    ELSE [hs EXCEPT ![pass.awaiter] =
             [@ EXCEPT !.pc = outcome, !.seen = version, !.scanned = scanStart]]

\* lines 120-139 of doScan: skillScanner.scan() has resolved with what it
\* read of the file system since the pass began, and the shared list skills
\* and the providers are updated
ScanResolves(n, version) ==
    /\ n \in DOMAIN scanPasses
    /\ scanPasses[n].pc = "scanning"
    /\ version \in scanPasses[n].startedAt..fsVersion
    /\ skillsVersion' = version
    /\ scanPasses' = [scanPasses EXCEPT ![n].pc = "saving"]
    /\ UNCHANGED <<lastScanStart, isScanning, scanQueued, debounceArmed, fsVersion, handlers,
                   scanRequests>>

\* pass n ends: the finally block runs, and the awaiting handler resumes
PassEnds(n, resumed, scanStart) ==
    /\ PerformScanCalled(Finally(scanQueued, Without(scanPasses, n), fsVersion))
    /\ lastScanStart' = scanStart
    /\ handlers' = Resumed(handlers, scanPasses[n], resumed, skillsVersion, scanStart)
    /\ UNCHANGED <<debounceArmed, fsVersion, skillsVersion, scanRequests>>

\* doScan returns
PassCompletes(n) ==
    /\ n \in DOMAIN scanPasses
    /\ scanPasses[n].pc = "saving"
    /\ PassEnds(n, "returned",
                IF scanPasses[n].startedAt > lastScanStart
                THEN scanPasses[n].startedAt ELSE lastScanStart)

\* doScan throws (withProgress or saveAnalytics rejects)
PassThrows(n) ==
    /\ n \in DOMAIN scanPasses
    /\ PassEnds(n, "threw", lastScanStart)

(***************************************************************************)
(* GapAnalyzer.deleteSkill                                                 *)
(***************************************************************************)
\* The skill documents a machine may hold under its scan roots: a document
\* sits in a subdirectory of a root or directly at a root (lines 72-88 of
\* scanDirectory make a record of either).
DeletableDocuments ==
    { WorkspaceRoot \o <<".cursor", "rules", SKILL_FILE_NAME>>,
      WorkspaceRoot \o <<".cursor", "rules", "alpha", SKILL_FILE_NAME>>,
      WorkspaceRoot \o <<".agent", "skills", "foo", SKILL_FILE_NAME>>,
      WorkspaceRoot \o <<".agent", "skills", "bar", SKILL_FILE_NAME>>,
      GlobalRoot \o <<SKILL_FILE_NAME>>,
      GlobalRoot \o <<"baz", SKILL_FILE_NAME>> }

\* the path p is the directory dir or lies below it
IsUnder(dir, p) == Len(dir) <= Len(p) /\ SubSeq(p, 1, Len(dir)) = dir

\* vscode.workspace.fs.delete(dir, { recursive: true, useTrash: true })
FsDelete(documents, dir) == {d \in documents : ~IsUnder(dir, d)}

\* line 61: `path.dirname(skill.path)`
DeleteSourceDir(skillPath) == Dirname(skillPath)

DeleteInit ==
    /\ deleteFsBefore \in SUBSET DeletableDocuments
    /\ deleteFs = deleteFsBefore
    /\ deletedSkill = <<>>
    /\ deleteOutcome = "none"

DeleteIdle ==
    /\ deleteFsBefore = {}
    /\ deleteFs = {}
    /\ deletedSkill = <<>>
    /\ deleteOutcome = "none"

\* deleteSkill(skill) for a record of the last scan: the delete succeeds
DeleteSkillOk(skillPath) ==
    /\ deletedSkill = <<>>
    /\ skillPath \in deleteFs
    /\ deleteFs' = FsDelete(deleteFs, DeleteSourceDir(skillPath))
    /\ deletedSkill' = <<skillPath>>
    /\ deleteOutcome' = "true"
    /\ UNCHANGED deleteFsBefore

\* the delete throws: the catch block shows the error and returns false
DeleteSkillFails(skillPath) ==
    /\ deletedSkill = <<>>
    /\ skillPath \in deleteFs
    /\ deletedSkill' = <<skillPath>>
    /\ deleteOutcome' = "false"
    /\ UNCHANGED <<deleteFsBefore, deleteFs>>

(***************************************************************************)
(* SkillScanner.resolveSource and the status of a record.  Paths are       *)
(* strings of characters here; path.sep is "/".                            *)
(***************************************************************************)
\* the characters of the path segments of the machine
Spell(name) ==
    IF name = ".cursor" THEN <<".", "c", "u", "r", "s", "o", "r">>
    ELSE IF name = "rules" THEN <<"r", "u", "l", "e", "s">>
    ELSE IF name = "skills" THEN <<"s", "k", "i", "l", "l", "s">>
    ELSE IF name = ".agent" THEN <<".", "a", "g", "e", "n", "t">>
    ELSE IF name = ".agents" THEN <<".", "a", "g", "e", "n", "t", "s">>
    ELSE IF name = "_agent" THEN <<"_", "a", "g", "e", "n", "t">>
    ELSE IF name = ".kiro" THEN <<".", "k", "i", "r", "o">>
    ELSE IF name = "my-skills" THEN <<"m", "y", "-", "s", "k", "i", "l", "l", "s">>
    ELSE IF name = ".Cursor" THEN <<".", "C", "u", "r", "s", "o", "r">>
    ELSE IF name = "Rules" THEN <<"R", "u", "l", "e", "s">>
    ELSE IF name = "shared" THEN <<"s", "h", "a", "r", "e", "d">>
    ELSE IF name = "home" THEN <<"h", "o", "m", "e">>
    ELSE IF name = "ws" THEN <<"w", "s">>
    ELSE IF name = "w" THEN <<"w">>
    ELSE IF name = "open-skills" THEN <<"o", "p", "e", "n", "-", "s", "k", "i", "l", "l", "s">>
    ELSE IF name = ".." THEN <<".", ".">>
    ELSE <<".">>

\* Array.prototype.join("/") of segments that are strings
RECURSIVE JoinSegments(_)
JoinSegments(segments) ==
    IF segments = <<>> THEN <<>>
    ELSE IF Len(segments) = 1 THEN segments[1]
    ELSE segments[1] \o <<"/">> \o JoinSegments(Tail(segments))

\* the string of a path given by the names of its segments
RelativePathString(names) == JoinSegments([k \in 1..Len(names) |-> Spell(names[k])])
AbsolutePathString(names) == <<"/">> \o RelativePathString(names)

\* the segments of a path with "." and empty segments dropped and ".."
\* resolved against the segments before it
RECURSIVE ResolveDots(_, _)
ResolveDots(segments, done) ==
    IF segments = <<>> THEN done
    ELSE IF Head(segments) = <<>> \/ Head(segments) = <<".">>
         THEN ResolveDots(Tail(segments), done)
    ELSE IF Head(segments) = <<".", ".">>
         THEN ResolveDots(Tail(segments),
                          IF done = <<>> THEN <<>> ELSE SubSeq(done, 1, Len(done) - 1))
    ELSE ResolveDots(Tail(segments), Append(done, Head(segments)))

ResolvedSegments(p) == ResolveDots(Split(p, "/"), <<>>)

\* path.normalize of an absolute path without a trailing separator
PathNormalize(p) == <<"/">> \o JoinSegments(ResolvedSegments(p))

\* path.join(a, b) for an absolute a
PathJoin(a, b) == PathNormalize(a \o <<"/">> \o b)

\* how many leading segments two paths share
CommonSegments(a, b) ==
    SetMax({n \in 0..Min(Len(a), Len(b)) : SubSeq(a, 1, n) = SubSeq(b, 1, n)})

\* path.relative(from, to) for absolute paths
PathRelative(from, to) ==
    JoinSegments(
        [k \in 1..(Len(ResolvedSegments(from))
                     - CommonSegments(ResolvedSegments(from), ResolvedSegments(to)))
            |-> <<".", ".">>]
        \o SubSeq(ResolvedSegments(to),
                  CommonSegments(ResolvedSegments(from), ResolvedSegments(to)) + 1,
                  Len(ResolvedSegments(to))))

\* normalizePath, lines 19-21: split on path.sep, join with "/", lower case
NormalizePath(p) ==
    [k \in 1..Len(JoinSegments(Split(p, "/"))) |->
        ToLowerCase(JoinSegments(Split(p, "/"))[k])]

\* String.prototype.startsWith and String.prototype.includes
StringStartsWith(str, prefix) ==
    Len(prefix) <= Len(str) /\ SubSeq(str, 1, Len(prefix)) = prefix
StringIncludes(str, part) ==
    \E p \in 0..(Len(str) - Len(part)) : SubSeq(str, p + 1, p + Len(part)) = part

\* enum SkillSource and enum SkillStatus
SourceAgent == ".agent/skills"
SourceCursorRules == ".cursor/rules"
SourceCursorSkills == ".cursor/skills"
SourceGlobal == "~/open-skills"
SourceCustom == "custom"
StatusActive == "active"
StatusImported == "imported"

\* mutant of SOURCE_PATTERNS: the agent pattern is tried first
AgentFirstPatterns ==
    << [match |-> RelativePathString(<<".agent">>), source |-> SourceAgent],
       [match |-> RelativePathString(<<".cursor", "rules">>), source |-> SourceCursorRules],
       [match |-> RelativePathString(<<".cursor", "skills">>), source |-> SourceCursorSkills] >>

\* lines 13-17
SOURCE_PATTERNS ==
    << [match |-> RelativePathString(<<".cursor", "rules">>), source |-> SourceCursorRules],
       [match |-> RelativePathString(<<".cursor", "skills">>), source |-> SourceCursorSkills],
       [match |-> RelativePathString(<<".agent">>), source |-> SourceAgent] >>

\* the scanner's workspaceRoot
SourceWorkspaceRoot == AbsolutePathString(<<"home", "ws">>)

\* lines 180-185: the loop over the patterns from the k-th on
RECURSIVE MatchPatterns(_, _, _)
MatchPatterns(patterns, normalizedRelative, k) ==
    IF k > Len(patterns) THEN SourceCustom
    ELSE IF StringIncludes(normalizedRelative, NormalizePath(patterns[k].match))
         THEN patterns[k].source
    ELSE MatchPatterns(patterns, normalizedRelative, k + 1)

\* resolveSource(basePath) of a scanner with the given globalPath
ResolveSource(basePath, globalPath) ==
    IF StringStartsWith(NormalizePath(PathNormalize(basePath)), NormalizePath(globalPath))
    THEN SourceGlobal
    ELSE MatchPatterns(SOURCE_PATTERNS,
                       NormalizePath(PathRelative(SourceWorkspaceRoot,
                                                  PathNormalize(basePath))), 1)

\* line 118 of parseSkillFile
StatusOf(source) == IF source = SourceGlobal THEN StatusImported ELSE StatusActive

\* the values of the setting globalPath: outside the workspace, a default
\* scan path of the workspace, a directory whose name begins the name of the
\* workspace root, and a directory spelt in another case
GlobalPathChoices ==
    { AbsolutePathString(<<"home", "open-skills">>),
      AbsolutePathString(<<"home", "ws", ".agent", "skills">>),
      AbsolutePathString(<<"home", "w">>),
      AbsolutePathString(<<"home", "ws", ".Cursor">>) }

\* scan paths relative to the workspace: some of DEFAULT_SCAN_PATHS, and
\* values of the setting customPaths
RelativeScanPaths ==
    { RelativePathString(<<".cursor", "rules">>),
      RelativePathString(<<".cursor", "skills">>),
      RelativePathString(<<".agent", "skills">>),
      RelativePathString(<<".agents", "skills">>),
      RelativePathString(<<"_agent", "skills">>),
      RelativePathString(<<"skills">>),
      RelativePathString(<<".kiro">>),
      RelativePathString(<<"my-skills">>),
      RelativePathString(<<".Cursor", "Rules">>),
      RelativePathString(<<".agent", ".cursor", "rules">>),
      RelativePathString(<<".cursor", "skills", ".cursor", "rules">>),
      RelativePathString(<<".", ".cursor", "skills", "..", "rules">>),
      RelativePathString(<<"..", "shared", ".cursor", "skills">>),
      RelativePathString(<<"shared", ".agents">>),
      RelativePathString(<<"my-skills", "rules">>),
      RelativePathString(<<".Cursor", "skills">>) }

\* lines 65-70 of resolveScanPaths: the paths that scanDirectory is given
SourceScanPaths(globalPath) ==
    {PathJoin(SourceWorkspaceRoot, p) : p \in RelativeScanPaths}
        \cup {PathNormalize(globalPath)}

SourceInit ==
    /\ srcGlobalPath \in GlobalPathChoices
    /\ srcScanPath \in SourceScanPaths(srcGlobalPath)
    /\ srcRecord = <<>>

SourceIdle ==
    /\ srcGlobalPath = <<>>
    /\ srcScanPath = <<>>
    /\ srcRecord = <<>>

\* parseSkillFile makes the record of a document found under the scan path
ParseSkillFileSource ==
    /\ srcRecord = <<>>
    /\ srcRecord' = << [source |-> ResolveSource(srcScanPath, PathNormalize(srcGlobalPath)),
                        status |-> StatusOf(ResolveSource(srcScanPath,
                                                          PathNormalize(srcGlobalPath)))] >>
    /\ UNCHANGED <<srcGlobalPath, srcScanPath>>

(***************************************************************************)
(* Specifications                                                          *)
(***************************************************************************)
InitAnalyze == AnalyzerInit /\ ParserIdle /\ PerformScanIdle /\ DeleteIdle /\ SourceIdle /\ CacheIdle /\ TreeIdle /\ PoolIdle /\ ImportIdle /\ FetchAllIdle /\ ExtractNameIdle /\ ScannerIdle /\ ClientIdle /\ InstallIdle
NextAnalyze == AnalyzeCall /\ UNCHANGED <<parserVars, performVars, deleteVars, sourceVars, cacheVars, treeVars, poolVars, importVars, fetchAllVars, nameVars, scannerVars, clientVars, installVars>>
SpecAnalyze == InitAnalyze /\ [][NextAnalyze]_vars

InitCache == CacheInit /\ AnalyzerIdle /\ ParserIdle /\ PerformScanIdle /\ DeleteIdle /\ SourceIdle /\ TreeIdle /\ PoolIdle /\ ImportIdle /\ FetchAllIdle /\ ExtractNameIdle /\ ScannerIdle /\ ClientIdle /\ InstallIdle
NextCache ==
    \/ Tick /\ UNCHANGED <<analyzerVars, parserVars, performVars, deleteVars, sourceVars, treeVars, poolVars, importVars, fetchAllVars, nameVars, scannerVars, clientVars, installVars>>
    \/ \E key \in CacheKeys, data \in CacheData :
          SetCacheCall(key, data) /\ UNCHANGED <<analyzerVars, parserVars, performVars, deleteVars, sourceVars, treeVars, poolVars, importVars, fetchAllVars, nameVars, scannerVars, clientVars, installVars>>
    \/ \E key \in CacheKeys :
          GetFromCacheCall(key) /\ UNCHANGED <<analyzerVars, parserVars, performVars, deleteVars, sourceVars, treeVars, poolVars, importVars, fetchAllVars, nameVars, scannerVars, clientVars, installVars>>
    \/ ClearCacheCall /\ UNCHANGED <<analyzerVars, parserVars, performVars, deleteVars, sourceVars, treeVars, poolVars, importVars, fetchAllVars, nameVars, scannerVars, clientVars, installVars>>
SpecCache == InitCache /\ [][NextCache]_vars

InitTree == TreeInit /\ AnalyzerIdle /\ ParserIdle /\ PerformScanIdle /\ DeleteIdle /\ SourceIdle /\ CacheIdle /\ PoolIdle /\ ImportIdle /\ FetchAllIdle /\ ExtractNameIdle /\ ScannerIdle /\ ClientIdle /\ InstallIdle
NextTree == ExtractSkillPaths /\ UNCHANGED <<analyzerVars, parserVars, performVars, deleteVars, sourceVars, cacheVars, poolVars, importVars, fetchAllVars, nameVars, scannerVars, clientVars, installVars>>
SpecTree == InitTree /\ [][NextTree]_vars

InitPool == PoolInit /\ PoolCacheInit /\ AnalyzerIdle /\ ParserIdle /\ PerformScanIdle /\ DeleteIdle /\ SourceIdle /\ TreeIdle /\ ImportIdle /\ FetchAllIdle /\ ExtractNameIdle /\ ScannerIdle /\ ClientIdle /\ InstallIdle
NextPool ==
    \/ PoolStart /\ UNCHANGED <<analyzerVars, parserVars, performVars, deleteVars, sourceVars, treeVars, importVars, fetchAllVars, nameVars, scannerVars, clientVars, installVars>>
    \/ \E k \in DOMAIN poolFetch : PoolFetchOk(k) /\ UNCHANGED <<analyzerVars, parserVars, performVars, deleteVars, sourceVars, treeVars, importVars, fetchAllVars, nameVars, scannerVars, clientVars, installVars>>
    \/ \E k \in DOMAIN poolFetch : PoolFetchFail(k) /\ UNCHANGED <<analyzerVars, parserVars, performVars, deleteVars, sourceVars, treeVars, importVars, fetchAllVars, nameVars, scannerVars, clientVars, installVars>>
    \/ PoolBatchResolved /\ UNCHANGED <<analyzerVars, parserVars, performVars, deleteVars, sourceVars, treeVars, importVars, fetchAllVars, nameVars, scannerVars, clientVars, installVars>>
    \/ PoolPauseElapsed /\ UNCHANGED <<analyzerVars, parserVars, performVars, deleteVars, sourceVars, treeVars, importVars, fetchAllVars, nameVars, scannerVars, clientVars, installVars>>
SpecPool == InitPool /\ [][NextPool]_vars

InitImport == ImportInit /\ AnalyzerIdle /\ ParserIdle /\ PerformScanIdle /\ DeleteIdle /\ SourceIdle /\ CacheIdle /\ TreeIdle /\ PoolIdle /\ FetchAllIdle /\ ExtractNameIdle /\ ScannerIdle /\ ClientIdle /\ InstallIdle
NextImport ==
    \/ ImportAllStart /\ UNCHANGED <<analyzerVars, parserVars, performVars, deleteVars, sourceVars, cacheVars, treeVars, poolVars, fetchAllVars, nameVars, scannerVars, clientVars, installVars>>
    \/ \E i \in DOMAIN importCall, ioError \in BOOLEAN :
          ImportCopyCompletes(i, ioError)
          /\ UNCHANGED <<analyzerVars, parserVars, performVars, deleteVars, sourceVars, cacheVars, treeVars, poolVars, fetchAllVars, nameVars, scannerVars, clientVars, installVars>>
    \/ ImportAllFinish /\ UNCHANGED <<analyzerVars, parserVars, performVars, deleteVars, sourceVars, cacheVars, treeVars, poolVars, fetchAllVars, nameVars, scannerVars, clientVars, installVars>>
SpecImport == InitImport /\ [][NextImport]_vars

InitFetchAll ==
    FetchAllInit /\ FetchAllCacheInit /\ AnalyzerIdle /\ ParserIdle /\ PerformScanIdle /\ DeleteIdle /\ SourceIdle /\ TreeIdle /\ PoolIdle /\ ImportIdle
    /\ ExtractNameIdle /\ ScannerIdle /\ ClientIdle /\ InstallIdle
NextFetchAll ==
    \/ FetchAllStart /\ UNCHANGED <<analyzerVars, parserVars, performVars, deleteVars, sourceVars, treeVars, poolVars, importVars, nameVars, scannerVars, clientVars, installVars>>
    \/ \E i \in DOMAIN repoProc :
          TreeResponseOk(i) /\ UNCHANGED <<analyzerVars, parserVars, performVars, deleteVars, sourceVars, treeVars, poolVars, importVars, nameVars, scannerVars, clientVars, installVars>>
    \/ \E i \in DOMAIN repoProc, reason \in TreeFailures :
          TreeResponseFail(i, reason)
          /\ UNCHANGED <<analyzerVars, parserVars, performVars, deleteVars, sourceVars, treeVars, poolVars, importVars, nameVars, scannerVars, clientVars, installVars>>
    \/ \E i \in DOMAIN repoProc : \E j \in DOMAIN repoProc[i].calls :
          SkillDocOk(i, j) /\ UNCHANGED <<analyzerVars, parserVars, performVars, deleteVars, sourceVars, treeVars, poolVars, importVars, nameVars, scannerVars, clientVars, installVars>>
    \/ \E i \in DOMAIN repoProc : \E j \in DOMAIN repoProc[i].calls :
          SkillDocFail(i, j) /\ UNCHANGED <<analyzerVars, parserVars, performVars, deleteVars, sourceVars, treeVars, poolVars, importVars, nameVars, scannerVars, clientVars, installVars>>
    \/ \E i \in DOMAIN repoProc : \E j \in DOMAIN repoProc[i].calls :
          SkillMetaOk(i, j) /\ UNCHANGED <<analyzerVars, parserVars, performVars, deleteVars, sourceVars, treeVars, poolVars, importVars, nameVars, scannerVars, clientVars, installVars>>
    \/ \E i \in DOMAIN repoProc : \E j \in DOMAIN repoProc[i].calls :
          SkillMetaFail(i, j) /\ UNCHANGED <<analyzerVars, parserVars, performVars, deleteVars, sourceVars, treeVars, poolVars, importVars, nameVars, scannerVars, clientVars, installVars>>
    \/ FetchAllSettled /\ UNCHANGED <<analyzerVars, parserVars, performVars, deleteVars, sourceVars, treeVars, poolVars, importVars, nameVars, scannerVars, clientVars, installVars>>
SpecFetchAll == InitFetchAll /\ [][NextFetchAll]_vars

InitExtractName ==
    /\ ExtractNameInit
    /\ AnalyzerIdle /\ ParserIdle /\ PerformScanIdle /\ DeleteIdle /\ SourceIdle /\ CacheIdle /\ TreeIdle /\ PoolIdle /\ ImportIdle /\ FetchAllIdle
    /\ ScannerIdle /\ ClientIdle /\ InstallIdle
NextExtractName ==
    ExtractNameCall
    /\ UNCHANGED <<analyzerVars, parserVars, performVars, deleteVars, sourceVars, cacheVars, treeVars, poolVars, importVars, fetchAllVars,
                   scannerVars, clientVars, installVars>>
SpecExtractName == InitExtractName /\ [][NextExtractName]_vars

OthersIdleForScanner ==
    /\ AnalyzerIdle /\ ParserIdle /\ PerformScanIdle /\ DeleteIdle /\ SourceIdle /\ CacheIdle /\ TreeIdle /\ PoolIdle /\ ImportIdle /\ FetchAllIdle
    /\ ExtractNameIdle /\ ClientIdle /\ InstallIdle
OthersUnchangedForScanner ==
    UNCHANGED <<analyzerVars, parserVars, performVars, deleteVars, sourceVars, cacheVars, treeVars, poolVars, importVars, fetchAllVars,
                nameVars, clientVars, installVars>>
InitScanner == ScannerInit /\ OthersIdleForScanner
NextScanner ==
    \/ ScanStart /\ OthersUnchangedForScanner
    \/ \E i \in DOMAIN rootCall : RootReadOk(i) /\ OthersUnchangedForScanner
    \/ \E i \in DOMAIN rootCall : RootReadFails(i) /\ OthersUnchangedForScanner
    \/ \E i \in DOMAIN rootCall : \E j \in DOMAIN rootCall[i].docs :
          DocReadOk(i, j) /\ OthersUnchangedForScanner
    \/ \E i \in DOMAIN rootCall : \E j \in DOMAIN rootCall[i].docs :
          DocReadFails(i, j) /\ OthersUnchangedForScanner
    \/ ScanSettled /\ OthersUnchangedForScanner
SpecScanner == InitScanner /\ [][NextScanner]_vars

OthersIdleForClient ==
    /\ AnalyzerIdle /\ ParserIdle /\ PerformScanIdle /\ DeleteIdle /\ SourceIdle /\ TreeIdle /\ PoolIdle /\ ImportIdle /\ FetchAllIdle
    /\ ExtractNameIdle /\ ScannerIdle /\ InstallIdle
OthersUnchangedForClient ==
    UNCHANGED <<analyzerVars, parserVars, performVars, deleteVars, sourceVars, treeVars, poolVars, importVars, fetchAllVars,
                nameVars, scannerVars, installVars>>
InitClient == ClientInit /\ ClientCacheInit /\ OthersIdleForClient
NextClient ==
    \/ \E tree \in ClientTrees : FetchRepoTreeCall(tree) /\ OthersUnchangedForClient
    \/ \E n \in DOMAIN clientCalls, remaining \in RemainingChoices :
          ClientTreeOk(n, remaining) /\ OthersUnchangedForClient
    \/ \E n \in DOMAIN clientCalls : ClientTreeFail(n) /\ OthersUnchangedForClient
    \/ \E file \in ClientFiles : FetchRawContentCall(file) /\ OthersUnchangedForClient
    \/ \E n \in DOMAIN clientCalls : ClientRawOk(n) /\ OthersUnchangedForClient
    \/ \E n \in DOMAIN clientCalls : ClientRawFail(n) /\ OthersUnchangedForClient
    \/ ClientClearCache /\ OthersUnchangedForClient
SpecClient == InitClient /\ [][NextClient]_vars

OthersIdleForInstall ==
    /\ AnalyzerIdle /\ ParserIdle /\ PerformScanIdle /\ DeleteIdle /\ SourceIdle /\ TreeIdle /\ ImportIdle /\ FetchAllIdle
    /\ ExtractNameIdle /\ ScannerIdle /\ ClientIdle
OthersUnchangedForInstall ==
    UNCHANGED <<analyzerVars, parserVars, performVars, deleteVars, sourceVars, treeVars, importVars, fetchAllVars,
                nameVars, scannerVars, clientVars>>
InitInstall == InstallInit /\ InstallCacheInit /\ PoolNotCalled /\ OthersIdleForInstall
NextInstall ==
    \/ InstallStart /\ OthersUnchangedForInstall
    \/ InstallTreeOk /\ OthersUnchangedForInstall
    \/ InstallTreeFail /\ OthersUnchangedForInstall
    \/ PoolStart /\ UNCHANGED installVars /\ OthersUnchangedForInstall
    \/ \E k \in DOMAIN poolFetch :
          PoolFetchOk(k) /\ UNCHANGED installVars /\ OthersUnchangedForInstall
    \/ \E k \in DOMAIN poolFetch :
          PoolFetchFail(k) /\ UNCHANGED installVars /\ OthersUnchangedForInstall
    \/ PoolBatchResolved /\ UNCHANGED installVars /\ OthersUnchangedForInstall
    \/ PoolPauseElapsed /\ UNCHANGED installVars /\ OthersUnchangedForInstall
    \/ InstallFilesRejected /\ OthersUnchangedForInstall
    \/ InstallFilesFetched /\ OthersUnchangedForInstall
    \/ InstallWriteFile /\ OthersUnchangedForInstall
    \/ InstallWriteFails /\ OthersUnchangedForInstall
    \/ InstallCounted /\ OthersUnchangedForInstall
    \/ InstallRescanned /\ OthersUnchangedForInstall
SpecInstall == InitInstall /\ [][NextInstall]_vars

OthersIdleForParser ==
    /\ AnalyzerIdle /\ CacheIdle /\ TreeIdle /\ PoolIdle /\ ImportIdle /\ FetchAllIdle
    /\ ExtractNameIdle /\ ScannerIdle /\ ClientIdle /\ InstallIdle /\ PerformScanIdle /\ DeleteIdle /\ SourceIdle
OthersUnchangedForParser ==
    UNCHANGED <<analyzerVars, cacheVars, treeVars, poolVars, importVars, fetchAllVars,
                nameVars, scannerVars, clientVars, installVars, performVars, deleteVars, sourceVars>>
InitParser == ParserInit /\ OthersIdleForParser
NextParser == ParseSkillMdCall /\ OthersUnchangedForParser
SpecParser == InitParser /\ [][NextParser]_vars

OthersIdleForPerformScan ==
    /\ AnalyzerIdle /\ CacheIdle /\ TreeIdle /\ PoolIdle /\ ImportIdle /\ FetchAllIdle
    /\ ExtractNameIdle /\ ScannerIdle /\ ClientIdle /\ InstallIdle /\ ParserIdle /\ DeleteIdle /\ SourceIdle
OthersUnchangedForPerformScan ==
    UNCHANGED <<analyzerVars, cacheVars, treeVars, poolVars, importVars, fetchAllVars,
                nameVars, scannerVars, clientVars, installVars, parserVars, deleteVars, sourceVars>>
InitPerformScan == PerformScanInit /\ OthersIdleForPerformScan
NextPerformScan ==
    \/ DirectScan /\ OthersUnchangedForPerformScan
    \/ WatcherEvent /\ OthersUnchangedForPerformScan
    \/ TimerFires /\ OthersUnchangedForPerformScan
    \/ HandlerMutates /\ OthersUnchangedForPerformScan
    \/ \E h \in DOMAIN handlers : HandlerAwaitsScan(h) /\ OthersUnchangedForPerformScan
    \/ \E n \in DOMAIN scanPasses, version \in 0..MaxMutations :
          ScanResolves(n, version) /\ OthersUnchangedForPerformScan
    \/ \E n \in DOMAIN scanPasses : PassCompletes(n) /\ OthersUnchangedForPerformScan
    \/ \E n \in DOMAIN scanPasses : PassThrows(n) /\ OthersUnchangedForPerformScan
SpecPerformScan == InitPerformScan /\ [][NextPerformScan]_vars

\* every I/O that a pass awaits ends: the pass moves on, or throws
PassProgress ==
    /\ \E n \in DOMAIN scanPasses :
          \/ \E version \in 0..MaxMutations : ScanResolves(n, version)
          \/ PassCompletes(n)
          \/ PassThrows(n)
    /\ OthersUnchangedForPerformScan
\* a timer that is set fires
TimerProgress == TimerFires /\ OthersUnchangedForPerformScan
SpecPerformScanFair ==
    SpecPerformScan /\ WF_vars(PassProgress) /\ WF_vars(TimerProgress)

OthersIdleForDelete ==
    /\ AnalyzerIdle /\ CacheIdle /\ TreeIdle /\ PoolIdle /\ ImportIdle /\ FetchAllIdle
    /\ ExtractNameIdle /\ ScannerIdle /\ ClientIdle /\ InstallIdle /\ ParserIdle
    /\ PerformScanIdle /\ SourceIdle
OthersUnchangedForDelete ==
    UNCHANGED <<analyzerVars, cacheVars, treeVars, poolVars, importVars, fetchAllVars,
                nameVars, scannerVars, clientVars, installVars, parserVars, performVars, sourceVars>>
InitDelete == DeleteInit /\ OthersIdleForDelete
NextDelete ==
    \/ \E skillPath \in DeletableDocuments :
          DeleteSkillOk(skillPath) /\ OthersUnchangedForDelete
    \/ \E skillPath \in DeletableDocuments :
          DeleteSkillFails(skillPath) /\ OthersUnchangedForDelete
SpecDelete == InitDelete /\ [][NextDelete]_vars

OthersIdleForSource ==
    /\ AnalyzerIdle /\ CacheIdle /\ TreeIdle /\ PoolIdle /\ ImportIdle /\ FetchAllIdle
    /\ ExtractNameIdle /\ ScannerIdle /\ ClientIdle /\ InstallIdle /\ ParserIdle
    /\ PerformScanIdle /\ DeleteIdle
OthersUnchangedForSource ==
    UNCHANGED <<analyzerVars, cacheVars, treeVars, poolVars, importVars, fetchAllVars,
                nameVars, scannerVars, clientVars, installVars, parserVars, performVars,
                deleteVars>>
InitSource == SourceInit /\ OthersIdleForSource
NextSource == ParseSkillFileSource /\ OthersUnchangedForSource
SpecSource == InitSource /\ [][NextSource]_vars

(***************************************************************************)
(* Properties                                                              *)
(***************************************************************************)
\* the objects a list of references points to, in order
Deref(h, refs) == [i \in 1..Len(refs) |-> h[refs[i]]]

NoDuplicateNormalizedNames(h, refs) ==
    \A i, j \in 1..Len(refs) :
        h[refs[i]].normalizedName = h[refs[j]].normalizedName => i = j

\* how many objects of the list carry the normalized name n
Occurrences(h, refs, n) ==
    Cardinality({i \in 1..Len(refs) : h[refs[i]].normalizedName = n})

\* C1: when the reference list has no duplicate normalized names, analyze
\* returns present and missing with present.length + missing.length =
\* R.length = totalAvailable, and every reference record appears in exactly
\* one of the two lists.
C1_PartitionCoversReference ==
    (analyzePc = "returned"
        /\ NoDuplicateNormalizedNames(heapAtCall, referenceSkills))
    => /\ Len(result.present) + Len(result.missing) = Len(referenceSkills)
       /\ Len(referenceSkills) = result.totalAvailable
       /\ \A i \in 1..Len(referenceSkills) :
             Occurrences(heap, result.present,
                         heapAtCall[referenceSkills[i]].normalizedName)
             + Occurrences(heap, result.missing,
                           heapAtCall[referenceSkills[i]].normalizedName) = 1

C1_Witness ==
    /\ analyzePc = "returned"
    /\ NoDuplicateNormalizedNames(heapAtCall, referenceSkills)
    /\ Len(referenceSkills) = 3
    /\ Len(result.present) = 2
    /\ Len(result.missing) = 1

\* C2 (as claimed): coveragePercentage is 100 when totalAvailable = 0,
\* otherwise round(100 * present.length / totalAvailable), and lies in 0..100.
C2_CoverageIsExactRound ==
    analyzePc = "returned"
    => /\ result.coveragePercentage \in 0..100
       /\ result.coveragePercentage =
             IF result.totalAvailable = 0 THEN 100
             ELSE ExactRound(100 * Len(result.present), result.totalAvailable)

\* the reference records that analyze must report present: those whose
\* normalizedName is the normalizedName of some local record
HasLocalTwin(h, L, r) ==
    \E i \in 1..Len(L) : h[L[i]].normalizedName = h[r].normalizedName

Retagged(h, refs, status) ==
    [i \in 1..Len(refs) |-> [h[refs[i]] EXCEPT !.status = status]]

NamesOf(h, refs) == [i \in 1..Len(refs) |-> h[refs[i]].name]

\* C3: present holds, in the order of R and with status active, exactly the
\* reference records whose normalizedName equals that of some local record;
\* missing holds the others, in the order of R, with status missing.
\* L = {Foo}, R = [Foo, Bar] gives present = [Foo], missing = [Bar], 50.
C3_PartitionByNormalizedName ==
    analyzePc = "returned"
    => /\ Deref(heap, result.present)
            = Retagged(heapAtCall,
                       SelectSeq(referenceSkills,
                                 LAMBDA r : HasLocalTwin(heapAtCall, localSkills, r)),
                       Active)
       /\ Deref(heap, result.missing)
            = Retagged(heapAtCall,
                       SelectSeq(referenceSkills,
                                 LAMBDA r : ~HasLocalTwin(heapAtCall, localSkills, r)),
                       Missing)
       /\ (NamesOf(heapAtCall, localSkills) = <<"Foo">>
             /\ NamesOf(heapAtCall, referenceSkills) = <<"Foo", "Bar">>)
          => /\ NamesOf(heap, result.present) = <<"Foo">>
             /\ NamesOf(heap, result.missing) = <<"Bar">>
             /\ heap[result.present[1]].status = Active
             /\ result.coveragePercentage = 50

C3_Witness ==
    /\ analyzePc = "returned"
    /\ NamesOf(heapAtCall, localSkills) = <<"Foo">>
    /\ NamesOf(heapAtCall, referenceSkills) = <<"Foo", "Bar">>
    /\ Len(result.present) = 1
    /\ Len(result.missing) = 1

\* C4: analyze leaves every object of L and of R as it was, field by field,
\* and leaves the two lists as they were; the records it returns are new
\* objects.
C4_InputsNotMutated ==
    analyzePc = "returned"
    => /\ \A ref \in 1..Len(heapAtCall) : heap[ref] = heapAtCall[ref]
       /\ \A i \in 1..Len(result.present) : result.present[i] > Len(heapAtCall)
       /\ \A i \in 1..Len(result.missing) : result.missing[i] > Len(heapAtCall)

C4_Witness ==
    /\ analyzePc = "returned"
    /\ Len(result.present) >= 1
    /\ Len(result.missing) >= 1
    /\ \E i \in 1..Len(referenceSkills) :
          heapAtCall[referenceSkills[i]].status = Imported

\* C5 (as claimed): a lookup at time T + D of an entry written at time T
\* returns the entry's data when D < TTL and nothing when D >= TTL, D = TTL
\* included.
C5_EntryAbsentFromTTL ==
    (lookup # <<>> /\ lookup[1].entry # <<>>)
    => IF lookup[1].at - lookup[1].entry[1].timestamp < TimeoutMs(cacheTimeout)
       THEN lookup[1].value = <<lookup[1].entry[1].data>>
       ELSE lookup[1].value = <<>>

HasItem(tree, item) == \E i \in 1..Len(tree) : tree[i] = item

\* C6 (as claimed): a listing that contains skills/alpha/SKILL.md and
\* skills/alpha/examples/SKILL.md, resolved under the prefix skills/, yields
\* exactly one deduplicated skill path, skills/alpha.
C6_NestedSkillFilesYieldOnePath ==
    (/\ scanPc = "done"
     /\ scanRepoPath = <<"skills">>
     /\ \A i \in 1..Len(scanTree) :
           IsSkillBlob(scanTree[i], <<"skills">>)
           <=> scanTree[i] \in { Blob(<<"skills", "alpha", "SKILL.md">>),
                                Blob(<<"skills", "alpha", "examples", "SKILL.md">>) }
     /\ HasItem(scanTree, Blob(<<"skills", "alpha", "SKILL.md">>))
     /\ HasItem(scanTree, Blob(<<"skills", "alpha", "examples", "SKILL.md">>)))
    => uniquePaths = << <<"skills", "alpha">> >>

\* the waves and pauses of a download of n files that runs to its end
RECURSIVE ExpectedPoolLog(_)
ExpectedPoolLog(n) ==
    IF n = 0 THEN <<>>
    ELSE IF n <= PoolConcurrency THEN <<n>>
         ELSE <<PoolConcurrency, 0>> \o ExpectedPoolLog(n - PoolConcurrency)

IsPrefix(a, b) == Len(a) <= Len(b) /\ SubSeq(b, 1, Len(a)) = a

WaveCount(log) == Cardinality({i \in 1..Len(log) : log[i] # 0})

PauseCount(log) == Cardinality({i \in 1..Len(log) : log[i] = 0})

\* C7: a download of n files issues ceil(n/5) waves of 5, ..., 5 and the
\* remainder, one pause between consecutive waves and none after the last:
\* what has been issued at any moment is a prefix of that schedule, and a
\* download that returns has issued all of it (12 files: 5, pause, 5, pause, 2).
C7_WavesAndPauses ==
    /\ IsPrefix(poolLog, ExpectedPoolLog(Len(poolFiles)))
    /\ poolPc = "resolved"
       => /\ poolLog = ExpectedPoolLog(Len(poolFiles))
          /\ WaveCount(poolLog)
               = (Len(poolFiles) + PoolConcurrency - 1) \div PoolConcurrency
          /\ PauseCount(poolLog) = IF poolLog = <<>> THEN 0 ELSE WaveCount(poolLog) - 1
          /\ Len(poolFiles) = 12 => poolLog = <<5, 0, 5, 0, 2>>

C7_Witness ==
    /\ poolPc = "resolved"
    /\ Len(poolFiles) = 12
    /\ poolLog = <<5, 0, 5, 0, 2>>

\* C10: an importSkill call whose destination exists returns false and
\* never throws, the destination keeps its content, and the other calls of
\* importAllMissingSkills are not affected: each returns true exactly when
\* its own copy could be made, and the command counts the calls that
\* returned true.
C10_ExistingDestinationFailsAlone ==
    /\ importAllPc # "rejected"
    /\ \A i \in DOMAIN importCall :
          /\ importCall[i].outcome # "threw"
          /\ (importCall[i].outcome # "pending" /\ importCall[i].targetExisted)
             => /\ importCall[i].outcome = "false"
                /\ fs[ImportTargetPath(importSkills[i], TargetDir)]
                     = importCall[i].targetBefore
                /\ <<"error", importSkills[i].name>> \in importNotices
          /\ importCall[i].outcome # "pending"
             => (importCall[i].outcome = "true"
                    <=> /\ ~importCall[i].targetExisted
                        /\ importCall[i].sourceExisted
                        /\ ~importCall[i].ioError)
          /\ importCall[i].outcome = "true"
             => fs[ImportTargetPath(importSkills[i], TargetDir)]
                  = fs[Dirname(importSkills[i].path)]
    /\ importAllPc = "done"
       => totalImported = Cardinality({i \in DOMAIN importCall :
                                          importCall[i].outcome = "true"})

C10_Witness ==
    /\ importAllPc = "done"
    /\ totalImported = 1
    /\ \E i, j \in DOMAIN importCall :
          /\ importCall[i].targetExisted
          /\ importCall[i].outcome = "false"
          /\ importCall[j].outcome = "true"


\* the position of a repository in the configured list
RepoIndex(repo) == CHOOSE i \in DOMAIN repositories : repositories[i] = repo

SkillsFrom(skills, repo) == SelectSeq(skills, LAMBDA skill : skill.source = repo)

Rejected(i) == repoProc[i].pc = "rejected"
Fulfilled(i) == repoProc[i].pc = "fulfilled"

\* the fetch of repository i went through: its tree or its single skill was
\* read and none of its skill documents failed
Succeeded(i) ==
    /\ Fulfilled(i)
    /\ \A j \in DOMAIN repoProc[i].calls : repoProc[i].calls[j].value # <<>>

C9_WarningOnlyWhenAllFail ==
    fetchAllPc = "returned" =>
        /\ (\A i \in DOMAIN repositories : Rejected(i)) => aggregateWarnings = 1
        /\ (\E i \in DOMAIN repositories : Succeeded(i)) => aggregateWarnings = 0

\* C9 amended: the warning is shown, once, exactly when at least one
\* repository was rejected and no repository has contributed a skill; so it
\* is shown when every repository is rejected, and never with a skill
\* returned nor before fetchAllSkills returns.
C9_WarningWhenErrorsAndNoSkills ==
    /\ fetchAllPc # "returned" => aggregateWarnings = 0
    /\ fetchAllPc = "returned" =>
         /\ aggregateWarnings \in {0, 1}
         /\ aggregateWarnings = 1 <=>
              /\ \E i \in DOMAIN repositories : Rejected(i)
              /\ \A i \in DOMAIN repositories : Fulfilled(i) => repoProc[i].value = <<>>
         /\ (\A i \in DOMAIN repositories : Rejected(i)) => aggregateWarnings = 1
         /\ allSkills # <<>> => aggregateWarnings = 0

\* C9 witness: the warning has been shown although the fetch of one repository
\* went through, with no skill in it.
C9_Witness ==
    /\ fetchAllPc = "returned"
    /\ aggregateWarnings = 1
    /\ \E i \in DOMAIN repositories : Succeeded(i)
    /\ \E i \in DOMAIN repositories : Rejected(i)


HasLine(content, line) ==
    \E p \in 1..Len(content) :
        /\ IsLineStart(content, p)
        /\ HasPrefixAt(content, p, line)
        /\ LineEnd(content, p) = p + Len(line)

\* C19: a document with the line 'name: Foo' is named Foo by extractName,
\* whatever headings it has; in particular the document with 'name: Foo'
\* and the heading '# Bar' is named Foo.
C19_NameKeyBeforeHeading ==
    (extractedName # <<>>
       /\ HasLine(docText, <<"n", "a", "m", "e", ":", " ", "F", "o", "o">>))
    => extractedName[1] = <<"F", "o", "o">>


\* the documents of root i that have been read
DocsRead(i) == {j \in DOMAIN rootCall[i].docs : rootCall[i].docs[j].pc = "read"}

\* the position in scanPaths of the root that a record's document lies under
RootOf(record) ==
    CHOOSE i \in DOMAIN scanPaths :
        /\ Len(scanPaths[i]) < Len(record.path)
        /\ SubSeq(record.path, 1, Len(scanPaths[i])) = scanPaths[i]

\* C11: scan never fails; once it has returned, the result holds exactly one
\* record for every document that could be read under a root that could be
\* listed, made of that document's text, and no record for a root whose
\* listing failed or for a document whose read failed.
C11_BadRootsAndFilesYieldNothing ==
    /\ scanAllPc \in {"idle", "ready", "running", "returned"}
    /\ \A i \in DOMAIN rootCall : rootCall[i].pc # "rejected"
    /\ scanAllPc = "returned" =>
         /\ \A i \in DOMAIN rootCall : \A j \in DOMAIN rootCall[i].docs :
              /\ rootCall[i].docs[j].pc = "read" =>
                   \E k \in DOMAIN scanSkills :
                      /\ scanSkills[k].path = rootCall[i].docs[j].path
                      /\ scanSkills[k].name
                           = ExtractName(ScanFiles[rootCall[i].docs[j].path],
                                         rootCall[i].docs[j].skillName)
              /\ rootCall[i].docs[j].pc = "failed" =>
                   \A k \in DOMAIN scanSkills :
                      scanSkills[k].path # rootCall[i].docs[j].path
         /\ \A i \in DOMAIN rootCall :
              rootCall[i].docs = <<>> =>
                 \A k \in DOMAIN scanSkills : RootOf(scanSkills[k]) # i
         /\ \A k \in DOMAIN scanSkills :
              \E i \in DOMAIN rootCall : \E j \in DocsRead(i) :
                 scanSkills[k].path = rootCall[i].docs[j].path
         /\ Cardinality({scanSkills[k].path : k \in DOMAIN scanSkills})
              = Len(scanSkills)

\* C11 witness: scan has returned records although a root that exists could
\* not be listed, other roots do not exist, and a document that exists could
\* not be read next to one that was.
C11_Witness ==
    /\ scanAllPc = "returned"
    /\ scanSkills # <<>>
    /\ \E i \in DOMAIN rootCall :
          scanPaths[i] \in DOMAIN ScanDirectories /\ rootCall[i].docs = <<>>
    /\ \E i \in DOMAIN rootCall :
          scanPaths[i] \notin DOMAIN ScanDirectories /\ rootCall[i].value = <<>>
    /\ \E i \in DOMAIN rootCall : \E j \in DOMAIN rootCall[i].docs :
          /\ rootCall[i].docs[j].pc = "failed"
          /\ rootCall[i].docs[j].path \in DOMAIN ScanFiles
    /\ \E i \in DOMAIN rootCall : \E j, l \in DOMAIN rootCall[i].docs :
          rootCall[i].docs[j].pc = "failed" /\ rootCall[i].docs[l].pc = "read"

\* C12: scanPaths is the default suffixes, then the custom ones, under the
\* workspace root, and the global root last; the result is built only when
\* every root has settled, and its records are grouped by root in the order
\* of scanPaths.
C12_RecordsInDeclaredRootOrder ==
    scanAllPc \in {"running", "returned"} =>
        /\ Len(scanPaths) = Len(DEFAULT_SCAN_PATHS) + Len(customPaths) + 1
        /\ scanPaths[Len(scanPaths)] = GlobalRoot
        /\ \A k \in DOMAIN DEFAULT_SCAN_PATHS :
              scanPaths[k] = WorkspaceRoot \o DEFAULT_SCAN_PATHS[k]
        /\ \A k \in DOMAIN customPaths :
              scanPaths[Len(DEFAULT_SCAN_PATHS) + k] = WorkspaceRoot \o customPaths[k]
        /\ scanAllPc = "running" => scanSkills = <<>>
        /\ scanAllPc = "returned" =>
              /\ \A i \in DOMAIN rootCall : rootCall[i].pc = "fulfilled"
              /\ \A k, l \in DOMAIN scanSkills :
                    k < l => RootOf(scanSkills[k]) <= RootOf(scanSkills[l])
              /\ \A i \in DOMAIN rootCall :
                    SelectSeq(scanSkills, LAMBDA r : RootOf(r) = i) = rootCall[i].value

\* C12 witness: scan has returned the records of three workspace roots and
\* of the global root, and a root has settled before an earlier one.
C12_Witness ==
    /\ scanAllPc = "returned"
    /\ rootsOutOfOrder
    /\ Cardinality({RootOf(scanSkills[k]) : k \in DOMAIN scanSkills}) = 4
    /\ RootOf(scanSkills[Len(scanSkills)]) = Len(scanPaths)


\* a call that sent a network request
SentRequest(call) == call.status # "hit"

C15_LowQuotaWarningOnce == rateLimitWarnings <= 1

\* C16: no raw-content request carries an Authorization header, whether it
\* asks for a skill document, a metadata.json or a file of a download; the
\* tree-listing requests carry the configured token, if there is one.
C16_TokenOnTreeRequestsOnly ==
    \A n \in DOMAIN clientCalls :
        SentRequest(clientCalls[n]) =>
            /\ clientCalls[n].kind = "raw" => clientCalls[n].authorization = <<>>
            /\ clientCalls[n].kind = "tree" =>
                 clientCalls[n].authorization
                    = IF githubToken = "" THEN <<>> ELSE <<"Bearer", githubToken>>

\* C16 witness: with a token configured, a tree-listing request has carried
\* it and a raw-content request has been sent.
C16_Witness ==
    /\ githubToken # ""
    /\ \E n \in DOMAIN clientCalls :
          /\ clientCalls[n].kind = "tree"
          /\ clientCalls[n].authorization = <<"Bearer", githubToken>>
    /\ \E n \in DOMAIN clientCalls :
          /\ clientCalls[n].kind = "raw"
          /\ SentRequest(clientCalls[n])


\* the file fetches of the download that have failed
FailedFetches == {k \in DOMAIN poolFetch : poolFetch[k].status = "failed"}

\* C14: a file fetch that fails rejects the download; the rejected download
\* has issued no call beyond the batch of the failure; and an installation
\* whose download was rejected ends in the catch block: the failure message
\* is shown, nothing is counted as installed, no success message is shown
\* and nothing has been created or written.
C14_FailedFetchAbortsInstall ==
    /\ FailedFetches # {} <=> poolPc = "rejected"
    /\ poolPc = "rejected" =>
         /\ \E k \in FailedFetches :
               poolI < k /\ k <= BatchEnd(poolI, Len(poolFiles))
         /\ DOMAIN poolFetch = 1..BatchEnd(poolI, Len(poolFiles))
         /\ Len(poolLog) = 2 * (poolI \div PoolConcurrency) + 1
         /\ installPc \in {"files", "failed"}
         /\ totalInstalled = 0
         /\ installOps = <<>>
         /\ <<"installed", installSkill.name>> \notin installNotices
         /\ installPc = "failed" => <<"error", installSkill.name>> \in installNotices
    /\ totalInstalled > 0 => poolPc = "resolved"

\* C14 witness: the second batch of a download of three batches has failed
\* on one file while another file of it is still being fetched, and the
\* installation has ended as failed.
C14_Witness ==
    /\ Len(poolFiles) = 12
    /\ poolPc = "rejected"
    /\ poolI = PoolConcurrency
    /\ \E k \in DOMAIN poolFetch : poolFetch[k].status = "pending"
    /\ installPc = "failed"
    /\ <<"error", installSkill.name>> \in installNotices


\* the file requests of the download that are in flight
InFlight == {k \in DOMAIN poolFetch : poolFetch[k].status = "pending"}

\* the calls that had been issued when the batch after i files began
Completed(fetch, i) ==
    \A k \in DOMAIN fetch : k <= i => fetch[k].status \in {"hit", "ok"}

\* C20: at most PoolConcurrency (5) file requests of a download are in flight; every call of
\* the batches before the current one has completed; and a batch after the
\* first is issued only by the step that ends the pause, when every call
\* issued before has completed.
C20_CeilingAndBarrier ==
    /\ [](/\ Cardinality(InFlight) <= PoolConcurrency
          /\ Completed(poolFetch, poolI)
          /\ \A k \in DOMAIN poolFetch : k <= poolI + PoolConcurrency)
    /\ [][DOMAIN poolFetch' # DOMAIN poolFetch =>
            /\ poolPc \in {"ready", "pause"}
            /\ poolPc = "pause" => poolLog[Len(poolLog)] = 0
            /\ InFlight = {}
            /\ Completed(poolFetch, Len(poolFiles))
            /\ Cardinality(DOMAIN poolFetch' \ DOMAIN poolFetch) <= PoolConcurrency]_vars

\* C20 witness: the five requests of the second batch are in flight, with
\* the first batch completed and the pause taken.
C20_Witness ==
    /\ poolPc = "batch"
    /\ poolI = PoolConcurrency
    /\ Cardinality(InFlight) = PoolConcurrency
    /\ poolLog = <<PoolConcurrency, 0, PoolConcurrency>>
    /\ Completed(poolFetch, poolI)

\* whether the string holds a line terminator
IsSingleLine(str) == \A p \in 1..Len(str) : ~IsLineTerminator(str[p])

IsFenceLine(line) == line = Fence \/ line = Fence \o <<"\r">>

\* the document starts with a fence line and has a second fence line
HasFrontmatterBlock(content) ==
    /\ IsFenceLine(Split(content, "\n")[1])
    /\ \E j \in 2..Len(Split(content, "\n")) : IsFenceLine(Split(content, "\n")[j])

\* C17 as stated: parsing "---\nname: X\ndescription: Y\n---\nBODY" gives
\* back X, Y and BODY for any X, Y and BODY; and a document without a
\* front-matter block gives empty name and description and itself as body.
C17_RoundTripAnyParts ==
    mdParsed # <<>> =>
        /\ mdOrigin.kind = "composed" =>
              /\ mdParsed[1].metadata.name = mdOrigin.name
              /\ mdParsed[1].metadata.description = mdOrigin.description
              /\ mdParsed[1].body = mdOrigin.body
        /\ ~HasFrontmatterBlock(mdContent) =>
              /\ mdParsed[1].metadata = EmptyMetadata
              /\ mdParsed[1].body = mdContent

\* C17 amended: for X and Y of one line, parsing the composed document gives
\* X and Y without their leading and trailing whitespace, and BODY as it is;
\* and a document without a front-matter block gives empty name and
\* description and itself as body.
C17_RoundTripUpToTrim ==
    mdParsed # <<>> =>
        /\ /\ mdOrigin.kind = "composed"
           /\ IsSingleLine(mdOrigin.name)
           /\ IsSingleLine(mdOrigin.description)
           => /\ mdParsed[1].metadata.name = Trim(mdOrigin.name)
              /\ mdParsed[1].metadata.description = Trim(mdOrigin.description)
              /\ DOMAIN mdParsed[1].metadata = {"name", "description"}
              /\ mdParsed[1].body = mdOrigin.body
        /\ ~HasFrontmatterBlock(mdContent) =>
              /\ mdParsed[1].metadata = EmptyMetadata
              /\ mdParsed[1].body = mdContent

\* C17 witness: a composed document whose body holds a fence line of its own
\* has been parsed, and name, description and body have come back.
C17_Witness ==
    /\ mdParsed # <<>>
    /\ mdOrigin.kind = "composed"
    /\ mdOrigin.name = <<"F", "o", "o">>
    /\ mdOrigin.description = <<"D", "o", "e", "s", " ", "x">>
    /\ mdOrigin.body = <<"a", "\n", "-", "-", "-", "\n", "b", "\n">>
    /\ mdParsed[1].metadata.name = mdOrigin.name
    /\ mdParsed[1].metadata.description = mdOrigin.description
    /\ mdParsed[1].body = mdOrigin.body

\* the lines from line j on, up to the next key line or the end of the
\* block, that are indented by two spaces or more, each trimmed
RECURSIVE FoldFrom(_, _)
FoldFrom(lines, j) ==
    IF j > Len(lines) \/ KeyMatch(lines[j]) # <<>> THEN <<>>
    ELSE IF IsIndented(lines[j]) THEN <<Trim(lines[j])>> \o FoldFrom(lines, j + 1)
    ELSE FoldFrom(lines, j + 1)

\* the lines joined with single spaces
RECURSIVE JoinSpaces(_)
JoinSpaces(lines) ==
    IF lines = <<>> THEN <<>>
    ELSE IF Len(lines) = 1 THEN lines[1]
    ELSE lines[1] \o <<" ">> \o JoinSpaces(Tail(lines))

\* line i is a key line of the allow-list for the field
IsKeyLineFor(lines, i, field) ==
    /\ KeyMatch(lines[i]) # <<>>
    /\ IsMetadataKey(KeyMatch(lines[i])[1].key)
    /\ FieldOf(KeyMatch(lines[i])[1].key) = field

\* line i is a key line with an empty value, followed by folded lines
StartsFold(lines, i) ==
    /\ KeyMatch(lines[i]) # <<>>
    /\ Trim(KeyMatch(lines[i])[1].value) = <<>>
    /\ FoldFrom(lines, i + 1) # <<>>

MetadataFields == {METADATA_KEYS[k].field : k \in DOMAIN METADATA_KEYS}

\* C18: in a front-matter block, a key of the allow-list with an empty value
\* that is followed by lines indented by two spaces or more, and is not
\* given again later, gets those lines, up to the next key line or the end
\* of the block, trimmed and joined with single spaces; and every field of
\* the metadata is a field of the allow-list whose value is the default or
\* comes from a line or a fold of its own key.
C18_FoldedValuesAndAllowList ==
    mdParsed # <<>> /\ mdOrigin.kind = "block" =>
        /\ \A i \in DOMAIN mdOrigin.lines, f \in MetadataFields :
              /\ IsKeyLineFor(mdOrigin.lines, i, f)
              /\ StartsFold(mdOrigin.lines, i)
              /\ \A j \in DOMAIN mdOrigin.lines :
                    j > i => ~IsKeyLineFor(mdOrigin.lines, j, f)
              => /\ f \in DOMAIN mdParsed[1].metadata
                 /\ mdParsed[1].metadata[f]
                      = Trim(JoinSpaces(FoldFrom(mdOrigin.lines, i + 1)))
        /\ DOMAIN mdParsed[1].metadata \subseteq MetadataFields
        /\ \A f \in DOMAIN mdParsed[1].metadata :
              \/ f \in DOMAIN EmptyMetadata /\ mdParsed[1].metadata[f] = EmptyMetadata[f]
              \/ \E i \in DOMAIN mdOrigin.lines :
                    /\ IsKeyLineFor(mdOrigin.lines, i, f)
                    /\ \/ /\ Trim(KeyMatch(mdOrigin.lines[i])[1].value) # <<>>
                          /\ mdParsed[1].metadata[f]
                               = Trim(KeyMatch(mdOrigin.lines[i])[1].value)
                       \/ /\ StartsFold(mdOrigin.lines, i)
                          /\ mdParsed[1].metadata[f]
                               = Trim(JoinSpaces(FoldFrom(mdOrigin.lines, i + 1)))
        /\ mdParsed[1].body = mdOrigin.body

\* C18 witness: the block "description:", "  line one", "  line two" has been
\* parsed and the description is "line one line two".
C18_Witness ==
    /\ mdParsed # <<>>
    /\ mdOrigin.kind = "block"
    /\ mdOrigin.lines = << <<"d", "e", "s", "c", "r", "i", "p", "t", "i", "o", "n", ":">>,
                           <<" ", " ", "l", "i", "n", "e", " ", "o", "n", "e">>,
                           <<" ", " ", "l", "i", "n", "e", " ", "t", "w", "o">> >>
    /\ mdParsed[1].metadata.description
         = <<"l", "i", "n", "e", " ", "o", "n", "e", " ", "l", "i", "n", "e", " ", "t", "w", "o">>

\* the tree listing of the repository has completed successfully: the cache
\* holds it (no entry expires or is cleared during one catalog load)
TreeListed(repo) == TreeKey(repo.owner, repo.repo, repo.branch) \in DOMAIN cache

\* C21 as stated: a repository has fetchSkillMetadata calls (each starts with
\* a raw-content fetch) only when its tree listing has completed
\* successfully, and none when the listing failed.
C21_ContentAfterTree ==
    \A i \in DOMAIN repoProc :
        /\ repoProc[i].calls # <<>> => TreeListed(repositories[i])
        /\ repoProc[i].pc = "rejected" => repoProc[i].calls = <<>>

\* C21 amended: a repository that is not marked singleSkill has
\* fetchSkillMetadata calls only when its tree listing has completed
\* successfully, each for a skill path of that listing, and has none while
\* the listing is awaited or when it failed; a singleSkill repository has
\* its one call without any tree listing.
C21_ContentAfterTreeUnlessSingleSkill ==
    \A i \in DOMAIN repoProc :
        /\ ~repositories[i].singleSkill =>
              /\ repoProc[i].calls # <<>> =>
                    /\ TreeListed(repositories[i])
                    /\ repoProc[i].pc \in {"skills", "fulfilled"}
              /\ repoProc[i].pc \in {"tree", "rejected"} => repoProc[i].calls = <<>>
              /\ \A j \in DOMAIN repoProc[i].calls :
                    \E k \in DOMAIN UniqueSkillPaths(
                                 RemoteTree(repositories[i].owner, repositories[i].repo),
                                 repositories[i].path) :
                       repoProc[i].calls[j].path
                         = UniqueSkillPaths(
                              RemoteTree(repositories[i].owner, repositories[i].repo),
                              repositories[i].path)[k]
        /\ repositories[i].singleSkill =>
              /\ Len(repoProc[i].calls) = 1
              /\ repoProc[i].calls[1].path = repositories[i].path
              /\ repoProc[i].pc # "tree"

\* C21 witness: one repository's listing has arrived and its SKILL.md is being
\* fetched, another's listing is still awaited, and a third's has failed.
C21_Witness ==
    \E i, k, m \in DOMAIN repoProc :
        /\ ~repositories[i].singleSkill
        /\ repoProc[i].pc = "skills"
        /\ \E j \in DOMAIN repoProc[i].calls : repoProc[i].calls[j].pc = "skillmd"
        /\ repoProc[k].pc = "tree"
        /\ repoProc[m].pc = "rejected"

SameTree(a, b) == a.owner = b.owner /\ a.repo = b.repo /\ a.branch = b.branch

\* C23: of one fetchAllSkills call, no two tree-listing requests for the same
\* owner, repo and branch are in flight together (so two have been sent).
C23_OneTreeRequestPerRepository ==
    \A i, k \in DOMAIN repoProc :
        /\ i < k
        /\ SameTree(repositories[i], repositories[k])
        => ~(repoProc[i].pc = "tree" /\ repoProc[k].pc = "tree")

\* C25: at most one doScan pass is executing, and isScanning tells whether
\* one is.
C25_OneScanPassAtATime ==
    /\ Len(scanPasses) <= 1
    /\ isScanning <=> Len(scanPasses) = 1

\* C25 witness: a pass is executing while a request is queued, the watcher
\* timer is set and a handler is about to ask for its rescan.
C25_Witness ==
    /\ Len(scanPasses) = 1
    /\ scanQueued
    /\ debounceArmed
    /\ \E h \in DOMAIN handlers : handlers[h].pc = "saving"

\* a pass ends in this step
SomePassEnds == \E n \in DOMAIN scanPasses : PassCompletes(n) \/ PassThrows(n)

\* performScan is called in this step
SomeScanRequested ==
    DirectScan \/ TimerFires \/ \E h \in DOMAIN handlers : HandlerAwaitsScan(h)

\* what a step does to the queue and the passes
QueueDiscipline ==
    /\ (SomeScanRequested /\ isScanning) =>
          (scanQueued' /\ scanPasses' = scanPasses)
    /\ (SomePassEnds /\ scanQueued) =>
          (/\ Len(scanPasses') = 1
           /\ scanPasses'[1] = ScanPass("queued", fsVersion, 0)
           /\ isScanning'
           /\ ~scanQueued')
    /\ (SomePassEnds /\ ~scanQueued) =>
          (/\ scanPasses' = <<>>
           /\ ~isScanning'
           /\ ~scanQueued')

\* C26: a request made while a pass is executing is kept in scanQueued and
\* starts no pass; when the pass ends, by return or by throw, with a request
\* queued, exactly one further pass starts in that step, on the file system
\* as it is then, and the queue is empty again; with none queued isScanning
\* returns to false; and in the end no pass is executing and none is queued.
C26_QueuedScanRunsOnce ==
    /\ [](scanQueued => isScanning /\ Len(scanPasses) = 1)
    /\ [][QueueDiscipline]_vars
    /\ <>[](~isScanning /\ ~scanQueued /\ scanPasses = <<>>)

\* C26 witness: the first pass has thrown, and the pass for the request that
\* was queued meanwhile is executing.
C26_Witness ==
    /\ lastScanStart = -1
    /\ Len(scanPasses) = 1
    /\ scanPasses[1].trigger = "queued"
    /\ ~scanQueued

\* C27: when the await of performScan returns in a handler, a pass that
\* started after the handler's mutation has completed, and the list skills
\* reflects the mutation.
C27_AwaitedScanReflectsMutation ==
    \A h \in DOMAIN handlers :
        handlers[h].pc = "returned" =>
            /\ handlers[h].scanned >= handlers[h].mutation
            /\ handlers[h].seen >= handlers[h].mutation

\* C28: after a successful deleteSkill, every skill document that existed
\* before, other than the deleted record's own, still exists.
C28_DeleteRemovesOnlyThatSkill ==
    deleteOutcome = "true" =>
        \A d \in deleteFsBefore : d # deletedSkill[1] => d \in deleteFs

\* the cache holds an unexpired entry for the key
HoldsUnexpired(c, key, t, timeout) ==
    key \in DOMAIN c /\ ~IsExpired(c[key], t, timeout)

\* the step is a call of fetchRepoTree or fetchRawContent
IsFetchCall == Len(clientCalls') = Len(clientCalls) + 1

\* the step is the successful response to the request of call n
IsFetchSuccess(n) == clientCalls[n].status = "pending" /\ clientCalls'[n].status = "ok"

\* C22: a fetch sends a request only when the cache holds no unexpired
\* entry for its key, whatever the cached value is, and a successful fetch
\* leaves its data in the cache under its key.
C22_RequestOnlyOnCacheMiss ==
    [][ /\ IsFetchCall =>
             (clientCalls'[Len(clientCalls')].status = "pending"
                 <=> ~HoldsUnexpired(cache, clientCalls'[Len(clientCalls')].key, now,
                                     TimeoutMs(cacheTimeout)))
        /\ \A n \in DOMAIN clientCalls :
             IsFetchSuccess(n) =>
                 HoldsUnexpired(cache', clientCalls[n].key, now, TimeoutMs(cacheTimeout))
      ]_vars

\* C30: a cache lookup never returns data stored by a request that was sent
\* before the last clearCache.
C30_NoDataFromBeforeClear ==
    [][ IsFetchCall /\ clientCalls'[Len(clientCalls')].status = "hit"
            => clientCalls'[Len(clientCalls')].key \notin staleData ]_vars

\* the installation has created a directory or written a file
HasWritten == installOps # <<>>

\* the tree listing of the installation has failed
InstallTreeFailed == installPc = "failed" /\ poolPc \in {"idle", "ready"}

\* C29: when an installation has created a directory or written a file,
\* every file of the skill has been fetched (its call is complete, none is
\* in flight and none has failed) and the download has resolved; when the
\* tree listing or a file fetch has failed, nothing is created or written.
C29_FetchesBeforeFirstWrite ==
    /\ HasWritten =>
         /\ poolPc = "resolved"
         /\ DOMAIN poolFetch = 1..Len(poolFiles)
         /\ \A k \in DOMAIN poolFetch : poolFetch[k].status \in {"hit", "ok"}
         /\ Len(poolResults) = Len(poolFiles)
    /\ (InstallTreeFailed \/ FailedFetches # {}) => ~HasWritten

\* C29 witness: a skill of twelve files, fetched in three batches, has its
\* directory created and its first file written.
C29_Witness ==
    /\ Len(poolFiles) = 12
    /\ Len(installOps) = 3
    /\ installOps[3][1] = "writeFile"

\* the path of the record's scan path relative to the workspace, normalized
SourceRelative == NormalizePath(PathRelative(SourceWorkspaceRoot, srcScanPath))

\* the scan path passes the test of the global root
UnderGlobal ==
    StringStartsWith(NormalizePath(srcScanPath), NormalizePath(PathNormalize(srcGlobalPath)))

HasCursorRules == StringIncludes(SourceRelative, RelativePathString(<<".cursor", "rules">>))
HasCursorSkills == StringIncludes(SourceRelative, RelativePathString(<<".cursor", "skills">>))
HasAgent == StringIncludes(SourceRelative, RelativePathString(<<".agent">>))

\* C24: a record is classified global exactly when its scan path passes the
\* test of the global root; otherwise it gets the source of the first of the
\* patterns .cursor/rules, .cursor/skills, .agent that its relative path
\* contains, and custom when it contains none; its status is imported
\* exactly when it is classified global, and active otherwise.
C24_SourceByFirstMatch ==
    srcRecord # <<>> =>
        /\ srcRecord[1].source =
              IF UnderGlobal THEN SourceGlobal
              ELSE IF HasCursorRules THEN SourceCursorRules
              ELSE IF HasCursorSkills THEN SourceCursorSkills
              ELSE IF HasAgent THEN SourceAgent
              ELSE SourceCustom
        /\ srcRecord[1].status = StatusImported <=> srcRecord[1].source = SourceGlobal
        /\ srcRecord[1].status = StatusActive <=> srcRecord[1].source # SourceGlobal

\* C24 witness: a scan path outside the global root that contains the agent
\* pattern before the cursor-rules pattern is classified cursor-rules, active.
C24_Witness ==
    /\ srcRecord # <<>>
    /\ ~UnderGlobal
    /\ HasAgent /\ HasCursorRules
    /\ srcRecord[1].source = SourceCursorRules
    /\ srcRecord[1].status = StatusActive

============================================================================
